---- MODULE Spec2Model ----
(***************************************************************************)
(* A model of the lockstep ordering core of meshgame:                      *)
(*   packages/core/src/ordering/lockstep-ordering.ts (LockstepOrdering)    *)
(*   packages/core/src/membership/types.ts           (BasicMembership)     *)
(* running on a mesh of peers joined by per-direction FIFO data channels,  *)
(* of the log stores (MemoryLogStore, IndexedDbLogStore) and of the commit  *)
(* queue by which GameNode writes the commits of its ordering to its log.   *)
(*                                                                         *)
(* Every method of LockstepOrdering is an operator from the object's       *)
(* state (a record with the class's fields) to its state after the call.   *)
(* The record also collects what the call hands to its collaborators:      *)
(*   out     - the messages given to transport.broadcast during the call   *)
(*   timers  - the setTimeout callbacks that are pending                   *)
(*   commits - the commits passed to the onCommit callbacks so far         *)
(***************************************************************************)
EXTENDS Integers, Sequences, FiniteSets, TLC

VARIABLES ord, wall, chan, link, env, submitted, accepted, sealLog, heard, last,
          commitQueue, log, idb, ret, node, eng, net

vars == <<ord, wall, chan, link, env, submitted, accepted, sealLog, heard, last,
          commitQueue, log, idb, ret, node, eng, net>>

(* The log stores and the outcome of the latest call on one. *)
storeVars == <<log, idb, ret>>

(* The engine an application drives by hand, and the transport side. *)
appVars == <<eng, net>>

----------------------------------------------------------------------------
(* Configuration shared by all peers. *)

T0Ms == 0
TickMs == 100
InputDelayTicks == 1
RoomId == "R"
NODE_TOPIC == "node"

(* Peer identifiers in ascending string order; Rank is the position of an  *)
(* identifier in that order and stands for the string comparison.          *)
PeerIds == <<"A", "B", "C">>

Rank(p) == CHOOSE i \in 1..Len(PeerIds) : PeerIds[i] = p

----------------------------------------------------------------------------
(* Bounds of the model. *)

MaxTimeIdx == 3
MaxActions == 1
MaxTick == 2
MaxSeq == 1
MeshTimeIdx == 2

(* The last clock reading of the system with a peer that forges frames. *)
GuardTimeIdx == 3

(* The most commits a log store holds. *)
MaxHeight == 3

(* The wall-clock readings (ms) the model draws Date.now() from. *)
TimeAt(i) == IF i = 1 THEN 50 ELSE IF i = 2 THEN 150 ELSE (i - 1) * 100

Times == {TimeAt(i) : i \in 1..MaxTimeIdx}

----------------------------------------------------------------------------
(* Map helpers: a JavaScript Map is a function with a finite domain. *)

EmptyMap == [x \in {} |-> 0]

Has(m, k) == k \in DOMAIN m

Get(m, k, dflt) == IF k \in DOMAIN m THEN m[k] ELSE dflt

Put(m, k, v) == [x \in (DOMAIN m) \cup {k} |-> IF x = k THEN v ELSE m[x]]

Del(m, k) == [x \in (DOMAIN m) \ {k} |-> m[x]]

Max(a, b) == IF a >= b THEN a ELSE b

SetMax(S) == CHOOSE x \in S : \A y \in S : y <= x

Range(s) == {s[i] : i \in 1..Len(s)}

----------------------------------------------------------------------------
(* BasicMembership *)

(* getPeers(): self first, then the peers in insertion order. *)
getPeers(o) == <<o.self>> \o o.members

(* addPeer(): ignores self; a Map keeps the position of an existing key. *)
addPeer(o, peerId) ==
  IF peerId = o.self \/ peerId \in Range(o.members) THEN o
  ELSE [o EXCEPT !.members = Append(@, peerId)]

(* removePeer() *)
removePeer(o, peerId) ==
  [o EXCEPT !.members = SelectSeq(@, LAMBDA x : x # peerId)]

----------------------------------------------------------------------------
(* Array.prototype.sort on peer identifiers and on buffered proposals. *)

RECURSIVE InsertPeer(_, _)
InsertPeer(s, p) ==
  IF s = <<>> THEN <<p>>
  ELSE IF Rank(p) < Rank(Head(s)) THEN <<p>> \o s
  ELSE <<Head(s)>> \o InsertPeer(Tail(s), p)

RECURSIVE SortPeersFrom(_, _)
SortPeersFrom(acc, s) ==
  IF s = <<>> THEN acc ELSE SortPeersFrom(InsertPeer(acc, Head(s)), Tail(s))

(* peers.sort() *)
SortPeers(s) == SortPeersFrom(<<>>, s)

RECURSIVE InsertBySeq(_, _)
InsertBySeq(s, x) ==
  IF s = <<>> THEN <<x>>
  ELSE IF x.seq < Head(s).seq THEN <<x>> \o s
  ELSE <<Head(s)>> \o InsertBySeq(Tail(s), x)

RECURSIVE SortBySeqFrom(_, _)
SortBySeqFrom(acc, s) ==
  IF s = <<>> THEN acc ELSE SortBySeqFrom(InsertBySeq(acc, Head(s)), Tail(s))

(* arr.sort((a, b) => a.seq - b.seq) *)
SortBySeq_arrivalOrder(s) == s

SortBySeq(s) == SortBySeqFrom(<<>>, s)

----------------------------------------------------------------------------
(* LockstepOrdering *)

(* The object after construction. *)
NewOrdering(self) ==
  [ self            |-> self,
    t0Ms            |-> T0Ms,
    buffer          |-> EmptyMap,
    seals           |-> EmptyMap,
    currentTick     |-> -1,
    committedTick   |-> InputDelayTicks - 1,
    committedHeight |-> 0,
    localSeqByTick  |-> EmptyMap,
    sealedTicks     |-> {},
    peerFirstTick   |-> EmptyMap,
    lastTickLogMs   |-> 0,
    members         |-> <<>>,
    out             |-> <<>>,
    timers          |-> <<>>,
    commits         |-> <<>> ]

(* transport.broadcast({topic: NODE_TOPIC, payload: encodeMessage(msg)}) *)
broadcast(o, msg) == [o EXCEPT !.out = Append(@, msg)]

computeTick(o, nowMs) ==
  LET dt == nowMs - o.t0Ms
  IN  IF dt < 0 THEN 0 ELSE dt \div TickMs

(* nextLocalSeq returns cur and stores cur + 1 *)
nextLocalSeqValue(o, t) == Get(o.localSeqByTick, t, 0)

nextLocalSeq_stuck(o, t) == o

nextLocalSeq(o, t) ==
  [o EXCEPT !.localSeqByTick = Put(@, t, nextLocalSeqValue(o, t) + 1)]

putAction(o, t, author, seq, action) ==
  LET byAuthor == Get(o.buffer, t, EmptyMap)
      arr      == Get(byAuthor, author, <<>>)
      arr2     == IF \E i \in 1..Len(arr) : arr[i].seq = seq
                  THEN arr
                  ELSE Append(arr, [seq |-> seq, action |-> action])
  IN  [o EXCEPT !.buffer = Put(@, t, Put(byAuthor, author, arr2))]

putSeal(o, t, author, lastSeq) ==
  LET byAuthor == Get(o.seals, t, EmptyMap)
  IN  [o EXCEPT !.seals = Put(@, t, Put(byAuthor, author, lastSeq))]

sealTickIfNeeded_again(o, t) ==
  IF t <= o.committedTick THEN o
  ELSE
    LET localActions == Get(Get(o.buffer, t, EmptyMap), o.self, <<>>)
        lastSeq == IF Len(localActions) = 0 THEN -1
                   ELSE SetMax({localActions[i].seq : i \in 1..Len(localActions)})
        o1 == [o EXCEPT !.sealedTicks = @ \cup {t}]
        o2 == putSeal(o1, t, o.self, lastSeq)
    IN  broadcast(o2, [type |-> "ACTION_SEAL", roomId |-> RoomId,
                       peerId |-> o.self, tick |-> t, lastSeq |-> lastSeq])

sealTickIfNeeded(o, t) ==
  IF t <= o.committedTick THEN o
  ELSE IF t \in o.sealedTicks THEN o
  ELSE
    LET localActions == Get(Get(o.buffer, t, EmptyMap), o.self, <<>>)
        lastSeq == IF Len(localActions) = 0 THEN -1
                   ELSE SetMax({localActions[i].seq : i \in 1..Len(localActions)})
        o1 == [o EXCEPT !.sealedTicks = @ \cup {t}]
        o2 == putSeal(o1, t, o.self, lastSeq)
    IN  broadcast(o2, [type |-> "ACTION_SEAL", roomId |-> RoomId,
                       peerId |-> o.self, tick |-> t, lastSeq |-> lastSeq])

maxCommittableTick(o) == o.currentTick - 1 + InputDelayTicks

(* ++this.committedHeight *)
commitSeq_postIncrement(o) == o.committedHeight

commitSeq(o) == o.committedHeight + 1

(* peers of getPeers() plus self when it is missing *)
peersWithSelf(o) ==
  LET peers == getPeers(o)
  IN  IF o.self \in Range(peers) THEN peers ELSE Append(peers, o.self)

canCommitTick_offByOne(o, t) ==
  LET peers    == peersWithSelf(o)
      byAuthor == Get(o.seals, t, EmptyMap)
  IN  \A i \in 1..Len(peers) :
        LET firstTick == Get(o.peerFirstTick, peers[i], 0)
        IN  t <= firstTick \/ Has(byAuthor, peers[i])

canCommitTick(o, t) ==
  LET peers    == peersWithSelf(o)
      byAuthor == Get(o.seals, t, EmptyMap)
  IN  \A i \in 1..Len(peers) :
        LET firstTick == Get(o.peerFirstTick, peers[i], 0)
        IN  t < firstTick \/ Has(byAuthor, peers[i])

RECURSIVE FlattenActions(_, _, _)
FlattenActions(o, t, authors) ==
  IF authors = <<>> THEN <<>>
  ELSE
    LET author    == Head(authors)
        firstTick == Get(o.peerFirstTick, author, 0)
        arr       == SortBySeq(Get(Get(o.buffer, t, EmptyMap), author, <<>>))
        mine      == IF t < firstTick THEN <<>>
                     ELSE [i \in 1..Len(arr) |-> arr[i].action]
    IN  mine \o FlattenActions(o, t, Tail(authors))

commitTick(o, t) ==
  LET peers   == peersWithSelf(o)
      actions == FlattenActions(o, t, SortPeers(peers))
      height  == o.committedHeight + 1
      commit  == [seq |-> commitSeq(o), actions |-> actions,
                  metadata |-> [orderingTick |-> t],
                  \* the barrier and the buffer as the callbacks find them
                  members  |-> Range(peers),
                  sealers  |-> DOMAIN Get(o.seals, t, EmptyMap),
                  lastSeqs |-> Get(o.seals, t, EmptyMap),
                  eligible |-> {o.self} \cup
                               {q \in Range(o.members) :
                                  Has(o.peerFirstTick, q) => o.peerFirstTick[q] <= t},
                  buffered |-> Get(o.buffer, t, EmptyMap)]
      o1 == [o EXCEPT !.committedHeight = height,
                      !.commits = Append(@, commit)]
      o2 == broadcast(o1, [type |-> "ACTION_COMMIT", roomId |-> RoomId,
                           tick |-> t, height |-> height,
                           actions |-> [i \in 1..Len(actions) |->
                              [peerId |-> actions[i].peerId, seq |-> -1,
                               payload |-> actions[i].payload]]])
  IN  [o2 EXCEPT !.buffer = Del(@, t),
                 !.seals = Del(@, t),
                 !.localSeqByTick = Del(@, t)]

RECURSIVE tryCommitFrom(_, _, _)
tryCommitFrom(o, t, maxTickToCommit) ==
  IF t > maxTickToCommit THEN o
  ELSE IF ~canCommitTick(o, t) THEN o
  ELSE tryCommitFrom([commitTick(o, t) EXCEPT !.committedTick = t],
                     t + 1, maxTickToCommit)

tryCommitUpTo(o, maxTickToCommit) ==
  tryCommitFrom(o, o.committedTick + 1, maxTickToCommit)

(* for (let s = from; s <= to; s++) this.sealTickIfNeeded(s) *)
RECURSIVE sealRange(_, _, _)
sealRange(o, from, to) ==
  IF from > to THEN o ELSE sealRange(sealTickIfNeeded(o, from), from + 1, to)

(* for (let t = currentTick + 1; t <= newTick; t++) { ... } *)
RECURSIVE advanceTicks(_, _, _)
advanceTicks(o, t, newTick) ==
  IF t > newTick THEN o
  ELSE
    LET o1     == [o EXCEPT !.currentTick = t]
        toSeal == t - 1 + InputDelayTicks
        o2     == IF t - 1 >= 0 THEN sealTickIfNeeded(o1, toSeal) ELSE o1
    IN  advanceTicks(o2, t + 1, newTick)

tick(o, nowMs) ==
  LET newTick == computeTick(o, nowMs)
      o0 == IF nowMs - o.lastTickLogMs > 1000
            THEN [o EXCEPT !.lastTickLogMs = nowMs] ELSE o
  IN  IF o0.currentTick = -1 THEN
        \* initial warp
        LET o1     == [o0 EXCEPT !.currentTick = newTick]
            toSeal == o1.currentTick - 1 + InputDelayTicks
            o2     == IF toSeal >= 0 THEN sealTickIfNeeded(o1, toSeal) ELSE o1
            o3     == [o2 EXCEPT !.committedTick = Max(@, toSeal - 1)]
        IN  tryCommitUpTo(o3, maxCommittableTick(o3))
      ELSE IF newTick <= o0.currentTick THEN
        tryCommitUpTo(o0, maxCommittableTick(o0))
      ELSE
        LET o1 == advanceTicks(o0, o0.currentTick + 1, newTick)
        IN  tryCommitUpTo(o1, maxCommittableTick(o1))

(* The targetTick onLocalAction computes. *)
targetTickOf_noDelay(o, nowMs) == computeTick(o, nowMs)

targetTickOf(o, nowMs) == computeTick(o, nowMs) + InputDelayTicks

(* The late check of onLocalAction and handleMessage. *)
lateTick_strict(o, t) == t < o.committedTick

lateTick(o, t) == t <= o.committedTick

onLocalAction(o, payload, nowMs) ==
  LET targetTick == targetTickOf(o, nowMs)
  IN  IF lateTick(o, targetTick) THEN o
      ELSE
        LET seq == nextLocalSeqValue(o, targetTick)
            o1  == nextLocalSeq(o, targetTick)
            o2  == putAction(o1, targetTick, o.self, seq,
                             [peerId |-> o.self, payload |-> payload])
        IN  broadcast(o2, [type |-> "ACTION_PROPOSE", roomId |-> RoomId,
                           peerId |-> o.self, tick |-> targetTick,
                           seq |-> seq, payload |-> payload])

(* for (const [pId, firstTick] of this.peerFirstTick.entries()) ... *)
warpFirstTicks_keep(o) == o

warpFirstTicks(o) ==
  [o EXCEPT !.peerFirstTick =
     [p \in DOMAIN @ |-> Max(@[p], o.currentTick + InputDelayTicks)]]

(* The room guard of handleMessage: a frame whose roomId is a non-empty    *)
(* string other than config.roomId is foreign.                              *)
foreignRoom_never(nodeMsg) == FALSE

foreignRoom(nodeMsg) == nodeMsg.roomId # "" /\ nodeMsg.roomId # RoomId

(* The sender check of ACTION_PROPOSE and ACTION_SEAL. *)
spoofed_never(fromPeerId, nodeMsg) == FALSE

spoofed(fromPeerId, nodeMsg) == nodeMsg.peerId # fromPeerId

(* handleMessage; dateNow is what Date.now() returns during the call. *)
handleMessage(o, fromPeerId, topic, nodeMsg, dateNow) ==
  IF topic # NODE_TOPIC THEN o
  ELSE IF foreignRoom(nodeMsg) THEN o
  ELSE IF nodeMsg.type = "ACTION_PROPOSE" THEN
    IF spoofed(fromPeerId, nodeMsg) THEN o
    ELSE IF lateTick(o, nodeMsg.tick) THEN o
    ELSE putAction(o, nodeMsg.tick, nodeMsg.peerId, nodeMsg.seq,
                   [peerId |-> nodeMsg.peerId, payload |-> nodeMsg.payload])
  ELSE IF nodeMsg.type = "ACTION_SEAL" THEN
    IF spoofed(fromPeerId, nodeMsg) THEN o
    ELSE IF lateTick(o, nodeMsg.tick) THEN o
    ELSE LET o1 == putSeal(o, nodeMsg.tick, nodeMsg.peerId, nodeMsg.lastSeq)
         IN  tryCommitUpTo(o1, o1.currentTick - InputDelayTicks)
  ELSE IF nodeMsg.type = "ACTION_COMMIT" THEN o
  ELSE IF nodeMsg.type = "SYNC_CLOCK" THEN
    IF nodeMsg.peerId = o.self THEN o
    ELSE
      LET localTick == computeTick(o, dateNow)
      IN  IF nodeMsg.tick > localTick THEN
            LET o1 == [o EXCEPT !.t0Ms = dateNow - nodeMsg.tick * TickMs,
                                !.currentTick = nodeMsg.tick]
                o2 == warpFirstTicks(o1)
                newestSeal == o2.currentTick - 1 + InputDelayTicks
                o3 == sealRange(o2, 0, newestSeal)
            IN  tryCommitUpTo(o3, maxCommittableTick(o3))
          ELSE o
  ELSE o

(* handlePeerEvent; the registered peerCallbacks belong to the embedding    *)
(* application and do not touch the ordering.                               *)
handlePeerEvent(o, evType, peerId, dateNow) ==
  IF evType = "peer_connected" THEN
    LET currentTick   == computeTick(o, dateNow)
        effectiveTick == currentTick + InputDelayTicks
        o1 == [o EXCEPT !.peerFirstTick = Put(@, peerId, effectiveTick)]
        o2 == addPeer(o1, peerId)
        syncMsg == [type |-> "SYNC_CLOCK", roomId |-> RoomId,
                    peerId |-> o.self, tick |-> currentTick]
    IN  [o2 EXCEPT !.timers = Append(@, [to |-> peerId, msg |-> syncMsg])]
  ELSE IF evType = "peer_disconnected" THEN
    LET o1 == removePeer(o, peerId)
    IN  [o1 EXCEPT !.peerFirstTick = Del(@, peerId)]
  ELSE o

----------------------------------------------------------------------------
(* MemoryLogStore: each method is an operator from the object to what the  *)
(* call leaves: the object, whether the promise resolved, and its value.    *)

Min(a, b) == IF a < b THEN a ELSE b

(* Array.prototype.slice(start, end): a negative index counts from the end *)
(* of the array.                                                            *)
slice(arr, start, end) ==
  LET len == Len(arr)
      k   == IF start < 0 THEN Max(len + start, 0) ELSE Min(start, len)
      fin == IF end < 0 THEN Max(len + end, 0) ELSE Min(end, len)
  IN  IF k >= fin THEN <<>> ELSE SubSeq(arr, k + 1, fin)

NewMemoryLogStore == [commits |-> <<>>]

latestHeight(s) == Len(s.commits)

Settled(s, ok, value) == [store |-> s, ok |-> ok, value |-> value]

append_unchecked(s, commit) ==
  Settled([s EXCEPT !.commits = Append(@, commit)], TRUE, <<>>)

append(s, commit) ==
  LET expectedSeq == latestHeight(s) + 1
  IN  IF commit.seq # expectedSeq
      THEN Settled(s, FALSE, "Sequence mismatch")
      ELSE Settled([s EXCEPT !.commits = Append(@, commit)], TRUE, <<>>)

getRange(s, fromHeight, toHeight) ==
  LET startIndex == Max(0, fromHeight - 1)
      endIndex   == Min(Len(s.commits), toHeight)
  IN  IF startIndex >= Len(s.commits)
      THEN Settled(s, TRUE, <<>>)
      ELSE Settled(s, TRUE, slice(s.commits, startIndex, endIndex))

clear(s) == Settled([s EXCEPT !.commits = <<>>], TRUE, <<>>)

(* IndexedDbLogStore: records is the object store "commits" of the        *)
(* database, keyed by seq, which outlives the IndexedDbLogStore object; db  *)
(* tells whether this object has opened the database.                       *)
NewIndexedDb == [records |-> EmptyMap, db |-> FALSE]

init(s) == IF s.db THEN s ELSE [s EXCEPT !.db = TRUE]

(* store.put(commit): the record under commit.seq is added or replaced. *)
idbAppend(s, commit) ==
  LET s1 == init(s)
  IN  Settled([s1 EXCEPT !.records = Put(@, commit.seq, commit)], TRUE, <<>>)

idbClear(s) ==
  LET s1 == init(s)
  IN  Settled([s1 EXCEPT !.records = EmptyMap], TRUE, <<>>)

(* store.openCursor(null, "prev"): the greatest key, or 0 when there is    *)
(* no record.                                                               *)
idbLatestHeight(s) ==
  LET s1 == init(s)
  IN  Settled(s1, TRUE,
              IF DOMAIN s1.records = {} THEN 0 ELSE SetMax(DOMAIN s1.records))

NoCall == [op |-> "none", args |-> <<>>, ok |-> TRUE, value |-> <<>>]

----------------------------------------------------------------------------
(* BaseEngine. An engine is a record: the rule it is built on, the ids of  *)
(* its systems and its schedulers, both in the order of registration. A    *)
(* game state is a record of the counter of the CounterRule and, in calls,  *)
(* the calls of rule.apply, system.update and scheduler.apply that made it. *)

NewEngine(rule) == [rule |-> rule, systems |-> <<>>, schedulers |-> <<>>]

addSystem_front(e, system) == [e EXCEPT !.systems = <<system>> \o @]

addSystem(e, system) == [e EXCEPT !.systems = Append(@, system)]

addScheduler(e, scheduler) == [e EXCEPT !.schedulers = Append(@, scheduler)]

InitialState == [count |-> 0, calls |-> <<>>]

(* CounterRule of the engine test; the rule "recorder" takes every action  *)
(* and changes nothing but the record of calls.                             *)
CountLimit == 100

ruleIsLegal(rule, state, action, meta) ==
  IF rule = "counter" /\ action.type = "INC" /\ state.count >= CountLimit
  THEN [ok |-> FALSE, error |-> "Max count reached"]
  ELSE [ok |-> TRUE]

ruleApply(rule, state, action, meta) ==
  LET s1 == [state EXCEPT !.calls =
               Append(@, [call |-> "apply", action |-> action, meta |-> meta])]
  IN  IF rule = "counter" /\ action.type = "INC"
      THEN [s1 EXCEPT !.count = @ + action.payload]
      ELSE s1

(* DoublerSystem of the engine test; any other system only leaves its      *)
(* call in the record.                                                      *)
DoublerAt == 10

systemUpdate(system, state, meta) ==
  LET s1 == [state EXCEPT !.calls = Append(@, [call |-> "update", id |-> system])]
  IN  IF system = "doubler" /\ state.count = DoublerAt
      THEN [s1 EXCEPT !.count = 2 * DoublerAt]
      ELSE s1

RECURSIVE runSystems(_, _, _)
runSystems(systems, state, meta) ==
  IF systems = <<>> THEN state
  ELSE runSystems(Tail(systems), systemUpdate(Head(systems), state, meta), meta)

isLegal(e, state, action, meta) == ruleIsLegal(e.rule, state, action, meta)

reduce_unchecked(e, state, action, meta) ==
  runSystems(e.systems, ruleApply(e.rule, state, action, meta), meta)

reduce(e, state, action, meta) ==
  LET result == isLegal(e, state, action, meta)
  IN  IF ~result.ok THEN state
      ELSE runSystems(e.systems, ruleApply(e.rule, state, action, meta), meta)

(* payload as Action *)
decodeAction(payload) == payload

(* isDue of scheduler.ts; the field except of a schedule, when it has     *)
(* one, is what its call returns, and so is shouldRun.                      *)
isDue(schedule, state, meta) ==
  IF "except" \in DOMAIN schedule /\ schedule.except THEN FALSE
  ELSE IF schedule.kind = "every" THEN
    LET start == IF "startTick" \in DOMAIN schedule THEN schedule.startTick ELSE 0
    IN  IF meta.orderingTick < start THEN FALSE
        ELSE (meta.orderingTick - start) % schedule.everyTicks = 0
  ELSE IF schedule.kind = "once" THEN meta.orderingTick = schedule.atTick
  ELSE schedule.shouldRun

Every(id, everyTicks, startTick) ==
  [id |-> id,
   schedule |-> [kind |-> "every", everyTicks |-> everyTicks,
                 startTick |-> startTick]]

(* sch.apply(s, meta): the schedulers of the model leave their call in the *)
(* record.                                                                  *)
schedulerApply(sch, state, meta) ==
  [state EXCEPT !.calls =
     Append(@, [call |-> "scheduler", id |-> sch.id, orderingTick |-> meta.orderingTick])]

----------------------------------------------------------------------------
(* GameNode. pipeline is the record of what the commit callbacks did:      *)
(* "start" when a callback begins with log.append, "end" when it is over,   *)
(* with the number of times it called each subscriber. running holds the    *)
(* callbacks that wait for their log.append to settle.                      *)

NewGameNode(playerId, engine) ==
  [playerId |-> playerId, engine |-> engine,
   state |-> InitialState, authoritativeState |-> InitialState,
   pendingActions |-> <<>>, nextTempId |-> 0,
   lastSchedulerCommittedTick |-> -1,
   subscribers |-> {0, 1}, running |-> <<>>, pipeline |-> <<>>]

notifySubscribers(g) == [id \in g.subscribers |-> 1]

submit(g, action, orderingTick) ==
  LET g1 == [g EXCEPT !.nextTempId = @ + 1,
                      !.pendingActions =
                         Append(@, [action |-> action, tempId |-> g.nextTempId])]
  IN  [g1 EXCEPT !.state =
         reduce(g.engine, g.state, action,
                [from |-> g.playerId, height |-> 0, orderingTick |-> orderingTick])]

RECURSIVE applyActions(_, _, _, _, _)
applyActions(e, state, actions, seq, committedTick) ==
  IF actions = <<>> THEN state
  ELSE applyActions(e,
         reduce(e, state, decodeAction(Head(actions).payload),
                [from |-> Head(actions).peerId, height |-> seq,
                 orderingTick |-> committedTick]),
         Tail(actions), seq, committedTick)

applyCommitToState(g, state, commit, committedTick) ==
  applyActions(g.engine, state, commit.actions, commit.seq, committedTick)

(* The inner loop of the catch-up: the schedulers of the engine, as the    *)
(* array holds them, each applied when it is due at meta.orderingTick.      *)
RECURSIVE runSchedulers(_, _, _)
runSchedulers(schedulers, s, meta) ==
  IF schedulers = <<>> THEN s
  ELSE LET sch == Head(schedulers)
       IN  runSchedulers(Tail(schedulers),
                         IF isDue(sch.schedule, s, meta)
                         THEN schedulerApply(sch, s, meta) ELSE s,
                         meta)

(* The outer loop: for (t = lastSchedulerCommittedTick + 1; t <= committedTick; t++). *)
RECURSIVE catchUp(_, _, _, _, _)
catchUp(schedulers, s, t, committedTick, playerId) ==
  IF t > committedTick THEN s
  ELSE catchUp(schedulers,
               runSchedulers(schedulers, s, [orderingTick |-> t, from |-> playerId]),
               t + 1, committedTick, playerId)

applySchedulersCatchUp(g, state, committedTick) ==
  [g |-> [g EXCEPT !.lastSchedulerCommittedTick = Max(@, committedTick)],
   s |-> IF g.engine.schedulers = <<>> THEN state
         ELSE catchUp(g.engine.schedulers, state,
                      g.lastSchedulerCommittedTick + 1, committedTick, g.playerId)]

(* Step 5 of the callback: the pending actions on top of the authoritative *)
(* state.                                                                   *)
RECURSIVE replay(_, _, _, _, _)
replay(e, state, pending, playerId, committedTick) ==
  IF pending = <<>> THEN state
  ELSE replay(e,
         reduce(e, state, Head(pending).action,
                [from |-> playerId, height |-> 0, orderingTick |-> committedTick]),
         Tail(pending), playerId, committedTick)

(* this.commitQueue = this.commitQueue.then(...): a callback runs when the *)
(* promise of the callback before it has settled.                           *)
chained_eager(g) == TRUE

chained(g) == g.running = <<>>

(* The callback of the commit queue up to its await: log.append is called. *)
startCommit(g, commit, appended) ==
  [g EXCEPT !.running = Append(@, [commit |-> commit, ok |-> appended]),
            !.pipeline = Append(@, [ev |-> "start", seq |-> commit.seq])]

(* The callback after the await: steps 2 to 6 when the append was taken,   *)
(* the catch block when it was rejected.                                    *)
finishCommit(g) ==
  LET commit == Head(g.running).commit
      committedTick == commit.metadata.orderingTick
      applied == applyCommitToState(g, g.authoritativeState, commit, committedTick)
      caught == applySchedulersCatchUp(g, applied, committedTick)
      myCount == Cardinality({i \in DOMAIN commit.actions :
                                commit.actions[i].peerId = g.playerId})
      pending == IF myCount > 0
                 THEN SubSeq(g.pendingActions, myCount + 1, Len(g.pendingActions))
                 ELSE g.pendingActions
      g1 == [g EXCEPT !.running = Tail(@)]
  IN  IF ~Head(g.running).ok
      THEN [g1 EXCEPT !.pipeline =
              Append(@, [ev |-> "end", seq |-> commit.seq, processed |-> FALSE,
                         notified |-> [id \in g.subscribers |-> 0]])]
      ELSE [g1 EXCEPT
              !.lastSchedulerCommittedTick = caught.g.lastSchedulerCommittedTick,
              !.authoritativeState = caught.s,
              !.pendingActions = pending,
              !.state = replay(g.engine, caught.s, pending, g.playerId, committedTick),
              !.pipeline =
                Append(@, [ev |-> "end", seq |-> commit.seq, processed |-> TRUE,
                           notified |-> notifySubscribers(g)])]

NoEngine ==
  [engine |-> NewEngine("none"), state |-> InitialState, registered |-> <<>>,
   op |-> "none", before |-> InitialState,
   action |-> [type |-> "NOP", payload |-> 0],
   meta |-> [from |-> "", height |-> 0, orderingTick |-> 0]]

(* The lifecycle of one LockstepOrdering on its ManualWebRtcTransport: the  *)
(* started flags, the peers of the transport and its two handler arrays.    *)
(* calls and events count the lifecycle calls and the transport events so   *)
(* far; handled is the number of handleMessage calls the latest incoming    *)
(* frame caused, fired the number of times the latest peer event reached    *)
(* the callback the application gave to ordering.onPeerEvent.                *)
NewTransport ==
  [started |-> FALSE, peers |-> {}, messageHandlers |-> <<>>,
   peerEventHandlers |-> <<>>]

transportStart(t) == IF t.started THEN t ELSE [t EXCEPT !.started = TRUE]

transportStop(t) == [t EXCEPT !.peers = {}, !.started = FALSE]

onMessage(t, handler) == [t EXCEPT !.messageHandlers = Append(@, handler)]

onPeerEvent(t, handler) == [t EXCEPT !.peerEventHandlers = Append(@, handler)]

start(n) ==
  IF n.started THEN n
  ELSE [n EXCEPT !.started = TRUE,
                 !.transport =
                    transportStart(onPeerEvent(onMessage(@, "handleMessage"),
                                               "handlePeerEvent"))]

stop(n) == [n EXCEPT !.started = FALSE, !.transport = transportStop(@)]

NoTransport ==
  [op |-> "none", started |-> FALSE, transport |-> NewTransport,
   calls |-> 0, events |-> 0, handled |-> 0, fired |-> 0]

----------------------------------------------------------------------------
(* The system: the peers of Procs run one LockstepOrdering each; the other  *)
(* peers that have a link are remote peers whose frames arrive in any       *)
(* order the transport allows.                                              *)
(*   wall[p]           Date.now() on p's machine                            *)
(*   link[<<p, q>>]    p's data channel to q: "new", "open" or "closed"     *)
(*   chan[<<p, q>>]    the frames sent by p and not yet received by q       *)
(*   env               what the remote peers do: which of them propose     *)
(*                     actions and send clock hints (all of them seal);     *)
(*                     and the last reading of the wall clocks              *)
(*   submitted[p]      how many actions the application of p has submitted  *)
(*   accepted[p]       the local actions onLocalAction has broadcast, with  *)
(*                     the clock of the ordering when it took them          *)
(*   sealLog[p]        the ACTION_SEAL frames p has broadcast, in order     *)
(*   heard[p]          the ACTION_PROPOSE and ACTION_SEAL frames handed to   *)
(*                     p's message handler (recorded when env.hearing)      *)
(*   commitQueue[p]    the commits the GameNode of p has chained onto its   *)
(*                     commit queue and not processed yet (env.gameNode)    *)
(*   log[p]            the MemoryLogStore of p                              *)
(*   idb               the IndexedDB database and the IndexedDbLogStore     *)
(*                     opened on it                                         *)
(*   ret               the latest call on a log store and how it settled    *)
(*   last              the latest call into an ordering: method, peer,      *)
(*                     sender, frame, what the call broadcast and the       *)
(*                     committedTick it found (recorded when tracing is on) *)

Procs == DOMAIN ord

Remote == {pq[2] : pq \in DOMAIN link} \ Procs

(* The payload of the n-th action submitted at p. *)
PayloadOf(p, n) == [by |-> p, n |-> n]

(* transport.broadcast: a frame goes to every peer whose channel is open.  *)
(* ACTION_COMMIT frames are left off the wire: handleMessage returns at    *)
(* once for them, so their arrival is a step that changes nothing.          *)
OnWire(msgs) == SelectSeq(msgs, LAMBDA m : m.type # "ACTION_COMMIT")

NoMsg == [type |-> "NONE", roomId |-> ""]

SealsOf(msgs) ==
  LET ss == SelectSeq(msgs, LAMBDA m : m.type = "ACTION_SEAL")
  IN  [i \in 1..Len(ss) |-> [tick |-> ss[i].tick, lastSeq |-> ss[i].lastSeq]]

SealedSoFar(p) == {sealLog[p][i].tick : i \in 1..Len(sealLog[p])}

ProposalsOf(p, msgs) ==
  {[payload |-> m.payload, tick |-> m.tick, seq |-> m.seq,
    currentTick |-> ord[p].currentTick,
    committedTick |-> ord[p].committedTick,
    sealed |-> m.tick \in SealedSoFar(p)] :
     m \in {x \in Range(msgs) : x.type = "ACTION_PROPOSE"}}

(* The commits the call that took the ordering from o1 to o2 passed to    *)
(* the onCommit callbacks, as the log stores them.                          *)
Delivered_lastOnly(o1, o2) ==
  IF Len(o2.commits) = Len(o1.commits) THEN <<>>
  ELSE LET c == o2.commits[Len(o2.commits)]
       IN  <<[seq |-> c.seq, actions |-> c.actions, metadata |-> c.metadata]>>

Delivered(o1, o2) ==
  [i \in 1..(Len(o2.commits) - Len(o1.commits)) |->
     LET c == o2.commits[Len(o1.commits) + i]
     IN  [seq |-> c.seq, actions |-> c.actions, metadata |-> c.metadata]]

(* A call on p has returned with the object o: its broadcasts (o.out) are   *)
(* on the wire; consumed is the channel whose first frame the call took,    *)
(* if any.                                                                  *)
Returned(p, o, op, from, msg, consumed) ==
  /\ ord' = [ord EXCEPT ![p] = [o EXCEPT !.out = <<>>]]
  /\ chan' = [pq \in DOMAIN chan |->
                IF pq = consumed THEN Tail(chan[pq])
                ELSE IF pq[1] = p /\ link[pq] = "open"
                     THEN chan[pq] \o OnWire(o.out)
                     ELSE chan[pq]]
  /\ sealLog' = [sealLog EXCEPT ![p] = @ \o SealsOf(o.out)]
  /\ accepted' = [accepted EXCEPT ![p] = @ \cup ProposalsOf(p, o.out)]
  /\ heard' = IF env.hearing /\ msg.type \in {"ACTION_PROPOSE", "ACTION_SEAL"}
              THEN [heard EXCEPT ![p] = @ \cup {msg}]
              ELSE heard
  /\ last' = IF last.op = "off" THEN last
             ELSE [op |-> op, p |-> p, from |-> from, msg |-> msg, sent |-> o.out,
                   committedTick |-> ord[p].committedTick]
  /\ commitQueue' = IF env.gameNode
                    THEN [commitQueue EXCEPT ![p] = @ \o Delivered(ord[p], o)]
                    ELSE commitQueue
  /\ UNCHANGED <<storeVars, appVars>>

None == <<>>

InitCore(procs, remotes, e, tracing) ==
  /\ ord = [p \in procs |-> NewOrdering(p)]
  /\ env = e
  /\ heard = [p \in procs |-> {}]
  /\ wall = [p \in procs |-> e.firstTime]
  /\ chan = [pq \in {x \in procs \X procs : x[1] # x[2]} |-> <<>>]
  /\ link = [pq \in {x \in procs \X (procs \cup remotes) : x[1] # x[2]} |-> "new"]
  /\ submitted = [p \in procs |-> 0]
  /\ accepted = [p \in procs |-> {}]
  /\ sealLog = [p \in procs |-> <<>>]
  /\ last = [op |-> IF tracing THEN "new" ELSE "off", p |-> "", from |-> "",
             msg |-> NoMsg, sent |-> <<>>, committedTick |-> -1]
  /\ commitQueue = [p \in procs |-> <<>>]
  /\ log = [p \in procs |-> e.log]
  /\ idb = NewIndexedDb
  /\ ret = NoCall
  /\ node = [p \in procs |-> NewGameNode(p, e.engine)]

InitWith(procs, remotes, e, tracing) ==
  /\ InitCore(procs, remotes, e, tracing)
  /\ eng = NoEngine
  /\ net = NoTransport

(* The remote peers keep to the protocol: they send frames of the room     *)
(* under their own identity only.                                           *)
Honest(active, lastTime, hearing) ==
  [active |-> active, firstTime |-> TimeAt(1), lastTime |-> lastTime,
   hearing |-> hearing, forgers |-> {}, mute |-> {}, rooms |-> {RoomId},
   gameNode |-> FALSE, optimistic |-> FALSE, engine |-> NewEngine("recorder"),
   log |-> NewMemoryLogStore, actions |-> MaxActions]

InitSystem(procs, remotes, active, lastTime, tracing) ==
  InitWith(procs, remotes, Honest(active, lastTime, remotes = {}), tracing)

(* Time passes on p's machine. *)
AdvanceClock(p) ==
  /\ \E t \in Times :
       /\ t > wall[p]
       /\ t <= env.lastTime
       /\ wall' = [wall EXCEPT ![p] = t]
  /\ UNCHANGED <<ord, chan, link, env, submitted, accepted, sealLog, heard, last>>
  /\ UNCHANGED <<commitQueue, storeVars, appVars, node>>

(* GameNode.tickLoop: ordering.tick(Date.now()) *)
CallTick(p) ==
  /\ computeTick(ord[p], wall[p]) <= MaxTick
  /\ Returned(p, tick(ord[p], wall[p]), "tick", "", NoMsg, None)
  /\ UNCHANGED <<wall, link, env, submitted, node>>

(* GameNode.submit: ordering.onLocalAction(action, Date.now()) *)
CallOnLocalAction(p) ==
  /\ submitted[p] < env.actions
  /\ targetTickOf(ord[p], wall[p]) <= MaxTick
  /\ submitted' = [submitted EXCEPT ![p] = @ + 1]
  /\ Returned(p, onLocalAction(ord[p], PayloadOf(p, submitted[p] + 1), wall[p]),
              "onLocalAction", "", NoMsg, None)
  /\ node' = IF env.optimistic
             THEN [node EXCEPT ![p] = submit(@, PayloadOf(p, submitted[p] + 1),
                                             ord[p].currentTick)]
             ELSE node
  /\ UNCHANGED <<wall, link, env>>

(* The transport of p reports that the data channel to q opened. *)
PeerConnected(p, q) ==
  /\ link[<<p, q>>] = "new"
  /\ link' = [link EXCEPT ![<<p, q>>] = "open"]
  /\ Returned(p, handlePeerEvent(ord[p], "peer_connected", q, wall[p]),
              "peer_connected", q, NoMsg, None)
  /\ UNCHANGED <<wall, env, submitted, node>>

(* The transport of p reports that the data channel to q closed; nothing   *)
(* more arrives from q.                                                     *)
PeerDisconnected(p, q) ==
  /\ link[<<p, q>>] = "open"
  /\ link' = [link EXCEPT ![<<p, q>>] = "closed"]
  /\ ord' = [ord EXCEPT ![p] =
               handlePeerEvent(ord[p], "peer_disconnected", q, wall[p])]
  /\ chan' = [pq \in DOMAIN chan |-> IF pq = <<q, p>> THEN <<>> ELSE chan[pq]]
  /\ last' = IF last.op = "off" THEN last
             ELSE [op |-> "peer_disconnected", p |-> p, from |-> q, msg |-> NoMsg,
                   sent |-> <<>>, committedTick |-> ord[p].committedTick]
  /\ UNCHANGED <<wall, env, submitted, accepted, sealLog, heard>>
  /\ UNCHANGED <<commitQueue, storeVars, appVars, node>>

(* The setTimeout of handlePeerEvent fires: transport.send(peerId, syncMsg); *)
(* send rejects when the channel is not open.                               *)
FireSyncTimer(p) ==
  /\ ord[p].timers # <<>>
  /\ LET tm == Head(ord[p].timers)
     IN  /\ chan' = [pq \in DOMAIN chan |->
                       IF pq = <<p, tm.to>> /\ link[pq] = "open"
                       THEN Append(chan[pq], tm.msg) ELSE chan[pq]]
         /\ ord' = [ord EXCEPT ![p] = [ord[p] EXCEPT !.timers = Tail(@)]]
  /\ last' = IF last.op = "off" THEN last
             ELSE [op |-> "timer", p |-> p, from |-> "", msg |-> NoMsg,
                   sent |-> <<>>, committedTick |-> ord[p].committedTick]
  /\ UNCHANGED <<wall, link, env, submitted, accepted, sealLog, heard>>
  /\ UNCHANGED <<commitQueue, storeVars, appVars, node>>

(* The transport of p hands a frame from q to the message handler. *)
Handle(p, q, msg, consumed) ==
  /\ (msg.type = "SYNC_CLOCK" => msg.tick <= MaxTick)
  /\ Returned(p, handleMessage(ord[p], q, NODE_TOPIC, msg, wall[p]),
              "handleMessage", q, msg, consumed)
  /\ UNCHANGED <<wall, link, env, submitted, node>>

(* The next frame of the channel from a peer the model runs. *)
DeliverMessage(p, q) ==
  /\ q \in Procs
  /\ link[<<p, q>>] = "open"
  /\ chan[<<q, p>>] # <<>>
  /\ Handle(p, q, Head(chan[<<q, p>>]), <<q, p>>)

(* The frames a remote peer q can send. Every remote peer seals; the ones  *)
(* of env.active also propose actions and send clock hints.                 *)
MsgTicks == 1..MaxTick

RemotePayload(q, t, s) == [by |-> q, n |-> 10 * t + s]

RemoteMessages(q) ==
  {[type |-> "ACTION_PROPOSE", roomId |-> RoomId, peerId |-> q, tick |-> t,
    seq |-> s, payload |-> RemotePayload(q, t, s)] :
       t \in (IF q \in env.active THEN MsgTicks ELSE {}), s \in 0..MaxSeq}
  \cup
  {[type |-> "ACTION_SEAL", roomId |-> RoomId, peerId |-> q, tick |-> t,
    lastSeq |-> -1] : t \in MsgTicks}
  \cup
  {[type |-> "SYNC_CLOCK", roomId |-> RoomId, peerId |-> q, tick |-> t] :
       t \in (IF q \in env.active THEN MsgTicks ELSE {})}

(* The frames of a remote peer that does not keep to the protocol: the    *)
(* peers of env.forgers send proposals and seals under the identity of      *)
(* another peer, and frames go out for every room of env.rooms.             *)
OtherRoom == "Q"

CommitFrame(rm, t) ==
  [type |-> "ACTION_COMMIT", roomId |-> rm, tick |-> t, height |-> 1,
   actions |-> <<>>]

ForgedMessages(q) ==
  IF q \in env.forgers
  THEN UNION {{[type |-> "ACTION_PROPOSE", roomId |-> RoomId, peerId |-> r,
                tick |-> t, seq |-> 0, payload |-> RemotePayload(r, t, 0)],
               [type |-> "ACTION_SEAL", roomId |-> RoomId, peerId |-> r,
                tick |-> t, lastSeq |-> -1]} :
                 r \in Range(PeerIds) \ {q}, t \in MsgTicks}
  ELSE {}

ForeignMessages(q) ==
  UNION {{[m EXCEPT !.roomId = rm] : m \in RemoteMessages(q)}
           \cup {CommitFrame(rm, t) : t \in MsgTicks} :
             rm \in env.rooms \ {RoomId}}

(* A frame from a remote peer arrives; the peers of env.mute send nothing. *)
ReceiveRemote(p, q) ==
  /\ q \in Remote
  /\ q \notin env.mute
  /\ link[<<p, q>>] = "open"
  /\ \E msg \in RemoteMessages(q) \cup ForgedMessages(q) \cup ForeignMessages(q) :
        Handle(p, q, msg, None)

Next ==
  \/ \E p \in Procs : AdvanceClock(p)
  \/ \E p \in Procs : CallTick(p)
  \/ \E p \in Procs : CallOnLocalAction(p)
  \/ \E pq \in DOMAIN link : PeerConnected(pq[1], pq[2])
  \/ \E pq \in DOMAIN link : PeerDisconnected(pq[1], pq[2])
  \/ \E p \in Procs : FireSyncTimer(p)
  \/ \E pq \in DOMAIN link : ReceiveRemote(pq[1], pq[2])

(* One ordering, A, with the remote peer B. *)
Init == InitSystem({"A"}, {"B"}, {"B"}, TimeAt(MaxTimeIdx), FALSE)

Spec == Init /\ [][Next]_vars

(* The same system with the calls traced in last. *)
InitTraced == InitSystem({"A"}, {"B"}, {"B"}, TimeAt(MaxTimeIdx), TRUE)

SpecTraced == InitTraced /\ [][Next]_vars

(* One ordering, A, with the remote peers B and C, which only seal. *)
Init3 == InitSystem({"A"}, {"B", "C"}, {}, TimeAt(MaxTimeIdx), FALSE)

Spec3 == Init3 /\ [][Next]_vars

(* One ordering, A, with the remote peer B, which seals and also sends     *)
(* frames under the identities of A and C and frames of other rooms, and    *)
(* the remote peer C, which connects and sends nothing; the calls are       *)
(* traced.                                                                  *)
InitGuard ==
  InitWith({"A"}, {"B", "C"},
           [Honest({}, TimeAt(GuardTimeIdx), FALSE)
              EXCEPT !.forgers = {"B"}, !.mute = {"C"},
                     !.rooms = {RoomId, OtherRoom, ""}],
           TRUE)

SpecGuard == InitGuard /\ [][Next]_vars

(* One ordering, A, with the remote peer B; the session is set to start   *)
(* at t0Ms and the wall clock of A is still before it.                      *)
InitEarly ==
  InitWith({"A"}, {"B"},
           [Honest({"B"}, TimeAt(MaxTimeIdx), FALSE) EXCEPT !.firstTime = TimeAt(0)],
           FALSE)

SpecEarly == InitEarly /\ [][Next]_vars

(* A MemoryLogStore and an application that calls it, one call at a time  *)
(* (GameNode awaits each append before the next).                           *)
LogTicks == 1..2

LogCommits ==
  {[seq |-> n, actions |-> <<>>, metadata |-> [orderingTick |-> t]] :
     n \in 0..(MaxHeight + 1), t \in LogTicks}

RangeArgs == (0 - 2)..(MaxHeight + 2)

LogCall(p, op, args, r) ==
  /\ log' = [log EXCEPT ![p] = r.store]
  /\ ret' = [op |-> op, args |-> args, ok |-> r.ok, value |-> r.value]
  /\ UNCHANGED <<ord, wall, chan, link, env, submitted, accepted, sealLog,
                 heard, last, commitQueue, idb, node, appVars>>

LogAppend(p) ==
  /\ latestHeight(log[p]) < MaxHeight
  /\ \E c \in LogCommits : LogCall(p, "append", <<c>>, append(log[p], c))

LogGetRange(p) ==
  \E fromHeight \in RangeArgs, toHeight \in RangeArgs :
    LogCall(p, "getRange", <<fromHeight, toHeight>>,
            getRange(log[p], fromHeight, toHeight))

LogClear(p) == LogCall(p, "clear", <<>>, clear(log[p]))

NextLog ==
  \/ \E p \in Procs : LogAppend(p)
  \/ \E p \in Procs : LogGetRange(p)
  \/ \E p \in Procs : LogClear(p)

InitLog == InitSystem({"A"}, {}, {}, TimeAt(1), FALSE)

SpecLog == InitLog /\ [][NextLog]_vars

(* An IndexedDbLogStore and an application that calls it, one call at a   *)
(* time; the page can be loaded again, which leaves the database and makes  *)
(* a new IndexedDbLogStore.                                                 *)
IdbCall(op, args, r) ==
  /\ idb' = r.store
  /\ ret' = [op |-> op, args |-> args, ok |-> r.ok, value |-> r.value]
  /\ UNCHANGED <<ord, wall, chan, link, env, submitted, accepted, sealLog,
                 heard, last, commitQueue, log, node, appVars>>

IdbAppend == \E c \in LogCommits : IdbCall("append", <<c>>, idbAppend(idb, c))

IdbClear == IdbCall("clear", <<>>, idbClear(idb))

IdbLatestHeight == IdbCall("latestHeight", <<>>, idbLatestHeight(idb))

IdbRestart ==
  /\ idb.db
  /\ IdbCall("new", <<>>, Settled([idb EXCEPT !.db = FALSE], TRUE, <<>>))

NextIdb ==
  \/ IdbAppend
  \/ IdbClear
  \/ IdbLatestHeight
  \/ IdbRestart

SpecIdb == InitLog /\ [][NextIdb]_vars

(* The GameNode of p runs the next callback of its commit queue: it       *)
(* awaits log.append(commit), and a rejected append is caught and logged.   *)
(* The steps after the append work on the engine state and leave the log    *)
(* alone.                                                                   *)
ProcessCommit(p) ==
  /\ commitQueue[p] # <<>>
  /\ log' = [log EXCEPT ![p] = append(@, Head(commitQueue[p])).store]
  /\ commitQueue' = [commitQueue EXCEPT ![p] = Tail(@)]
  /\ UNCHANGED <<ord, wall, chan, link, env, submitted, accepted, sealLog,
                 heard, last, idb, ret, node, appVars>>

(* One GameNode, A, with its ordering and its MemoryLogStore, and the      *)
(* remote peer B.                                                           *)
NextNode ==
  \/ \E p \in Procs : AdvanceClock(p)
  \/ \E p \in Procs : CallTick(p)
  \/ \E p \in Procs : CallOnLocalAction(p)
  \/ \E pq \in DOMAIN link : PeerConnected(pq[1], pq[2])
  \/ \E pq \in DOMAIN link : PeerDisconnected(pq[1], pq[2])
  \/ \E p \in Procs : FireSyncTimer(p)
  \/ \E pq \in DOMAIN link : ReceiveRemote(pq[1], pq[2])
  \/ \E p \in Procs : ProcessCommit(p)

InitNode ==
  InitWith({"A"}, {"B"},
           [Honest({"B"}, TimeAt(MaxTimeIdx), FALSE) EXCEPT !.gameNode = TRUE],
           FALSE)

SpecNode == InitNode /\ [][NextNode]_vars

(* A mesh of two orderings, A and B, joined by FIFO data channels that     *)
(* stay open once they are.                                                 *)
NextMesh ==
  \/ \E p \in Procs : AdvanceClock(p)
  \/ \E p \in Procs : CallTick(p)
  \/ \E p \in Procs : CallOnLocalAction(p)
  \/ \E pq \in DOMAIN link : PeerConnected(pq[1], pq[2])
  \/ \E p \in Procs : FireSyncTimer(p)
  \/ \E pq \in DOMAIN link : DeliverMessage(pq[1], pq[2])

InitMesh == InitSystem({"A", "B"}, {}, {}, TimeAt(MeshTimeIdx), FALSE)

SpecMesh == InitMesh /\ [][NextMesh]_vars

----------------------------------------------------------------------------
(* Properties *)

Commits(p) == ord[p].commits

TickOf(c) == c.metadata.orderingTick

(* C1: the k-th commit handed to onCommit has seq k, and every commit      *)
(* after the first has the orderingTick of its predecessor plus one.        *)
C1_GapFree ==
  \A p \in Procs :
    \A k \in 1..Len(Commits(p)) :
      /\ Commits(p)[k].seq = k
      /\ k > 1 => TickOf(Commits(p)[k]) = TickOf(Commits(p)[k - 1]) + 1

(* A was warped by SYNC_CLOCK and has emitted two commits. *)
C1_Witness ==
  /\ Len(Commits("A")) >= 2
  /\ ord["A"].t0Ms # T0Ms

(* C2: a commit for tick T is emitted only when the local peer and every  *)
(* member whose firstEligibleTick is at most T have a recorded seal for T.  *)
C2_BarrierSound ==
  \A p \in Procs :
    \A k \in 1..Len(Commits(p)) :
      Commits(p)[k].eligible \subseteq Commits(p)[k].sealers

(* A committed a tick for which the remote peer B was eligible. *)
C2_Witness ==
  \E k \in 1..Len(Commits("A")) : "B" \in Commits("A")[k].eligible

(* The frames an ordering has taken in: the proposals and seals handed to  *)
(* its handler, and its own, which it records as it broadcasts them.        *)
Proposal(peerId, t, seq, payload) ==
  [type |-> "ACTION_PROPOSE", roomId |-> RoomId, peerId |-> peerId,
   tick |-> t, seq |-> seq, payload |-> payload]

Seal(peerId, t, lastSeq) ==
  [type |-> "ACTION_SEAL", roomId |-> RoomId, peerId |-> peerId,
   tick |-> t, lastSeq |-> lastSeq]

FramesOf(p) ==
  heard[p]
    \cup {Proposal(p, a.tick, a.seq, a.payload) : a \in accepted[p]}
    \cup {Seal(p, sealLog[p][i].tick, sealLog[p][i].lastSeq) :
            i \in 1..Len(sealLog[p])}

(* What a commit hands to onCommit. *)
Emitted(c) == [seq |-> c.seq, orderingTick |-> TickOf(c), actions |-> c.actions]

(* C3: whenever two peers of the mesh have both emitted a commit for the   *)
(* same orderingTick, each with the same peers in its membership, the two   *)
(* commits hold the same action list.                                       *)
C3_Agreement ==
  \A p \in Procs, q \in Procs :
    \A i \in 1..Len(Commits(p)), j \in 1..Len(Commits(q)) :
      /\ TickOf(Commits(p)[i]) = TickOf(Commits(q)[j])
      /\ Commits(p)[i].members = Commits(q)[j].members
      => Commits(p)[i].actions = Commits(q)[j].actions

(* A and B have both committed the tick 1, for which A proposed an action. *)
C3_Witness ==
  /\ \E a \in accepted["A"] : a.tick = 1
  /\ \E i \in 1..Len(Commits("A")) : TickOf(Commits("A")[i]) = 1
  /\ \E j \in 1..Len(Commits("B")) : TickOf(Commits("B")[j]) = 1

(* C4: two orderings that have taken in the same proposals and seals have  *)
(* emitted the same commits at every position both have reached; the       *)
(* positions compared are those where both found the same proposals in     *)
(* the buffer, so that no frame taken in after a commit counts.             *)
C4_Determinism ==
  \A p \in Procs, q \in Procs :
    FramesOf(p) = FramesOf(q)
      => \A k \in 1..Len(Commits(p)) :
           /\ k <= Len(Commits(q))
           /\ Commits(p)[k].buffered = Commits(q)[k].buffered
           => Emitted(Commits(p)[k]) = Emitted(Commits(q)[k])

(* A and B have taken in the same frames, an action among them, and both   *)
(* have emitted a commit.                                                   *)
C4_Witness ==
  /\ FramesOf("A") = FramesOf("B")
  /\ \E f \in FramesOf("A") : f.type = "ACTION_PROPOSE"
  /\ Len(Commits("A")) >= 1
  /\ Len(Commits("B")) >= 1

(* The proposals of one author in ascending seq: the k-th is the one with  *)
(* k - 1 proposals of a lower seq.                                         *)
Ascending(arr) ==
  [k \in 1..Len(arr) |->
     (CHOOSE x \in Range(arr) :
        Cardinality({y \in Range(arr) : y.seq < x.seq}) = k - 1).action]

(* The eligible peers from the i-th identifier on, in ascending order, each *)
(* with its proposals in ascending seq.                                     *)
RECURSIVE ExpectedFrom(_, _)
ExpectedFrom(c, i) ==
  IF i > Len(PeerIds) THEN <<>>
  ELSE (IF PeerIds[i] \in c.eligible
        THEN Ascending(Get(c.buffered, PeerIds[i], <<>>))
        ELSE <<>>) \o ExpectedFrom(c, i + 1)

(* C5: the actions of the commit for tick T are the buffered proposals of  *)
(* the peers eligible at T, peer by peer in ascending peerId and, for each  *)
(* peer, in ascending seq, whatever the order of their arrival.             *)
C5_CommitOrder ==
  \A p \in Procs :
    \A k \in 1..Len(Commits(p)) :
      Commits(p)[k].actions = ExpectedFrom(Commits(p)[k], 1)

(* A committed a tick with an action of its own and two proposals of B     *)
(* that arrived with the higher seq first.                                  *)
C5_Witness ==
  \E k \in 1..Len(Commits("A")) :
    LET c == Commits("A")[k]
    IN  /\ "B" \in c.eligible
        /\ Has(c.buffered, "A")
        /\ Has(c.buffered, "B")
        /\ Len(c.buffered["B"]) = 2
        /\ c.buffered["B"][1].seq > c.buffered["B"][2].seq

(* The action onLocalAction buffered for an accepted proposal. *)
ActionOf(p, a) == [peerId |-> p, payload |-> a.payload]

(* C6: every action onLocalAction accepted is in the commit for its        *)
(* targetTick, and no commit for a greater tick is emitted before that one. *)
C6_AcceptedCommitted ==
  \A p \in Procs :
    \A a \in accepted[p] :
      \A k \in 1..Len(Commits(p)) :
        TickOf(Commits(p)[k]) >= a.tick
          => \E j \in 1..k :
               /\ TickOf(Commits(p)[j]) = a.tick
               /\ \E i \in 1..Len(Commits(p)[j].actions) :
                    Commits(p)[j].actions[i] = ActionOf(p, a)

(* A accepted an action and has emitted the commit for its targetTick. *)
C6_Witness ==
  \E a \in accepted["A"] :
    \E k \in 1..Len(Commits("A")) : TickOf(Commits("A")[k]) = a.tick

HighestSeq(p, t) ==
  LET seqs == {a.seq : a \in {x \in accepted[p] : x.tick = t}}
  IN  IF seqs = {} THEN -1 ELSE SetMax(seqs)

FramesFrom(q) ==
  {Proposal(q, t, sq, RemotePayload(q, t, sq)) : t \in 0..MaxTick, sq \in 0..MaxSeq}
    \cup {Seal(q, t, ls) : t \in 0..MaxTick, ls \in {-1}}

(* The frame is recorded in the buffers of o, as its delivery left it. *)
Recorded(o, msg) ==
  IF msg.type = "ACTION_PROPOSE"
  THEN LET arr == Get(Get(o.buffer, msg.tick, EmptyMap), msg.peerId, <<>>)
       IN  \E i \in 1..Len(arr) : arr[i].seq = msg.seq
  ELSE /\ Has(Get(o.seals, msg.tick, EmptyMap), msg.peerId)
       /\ o.seals[msg.tick][msg.peerId] = msg.lastSeq

(* How many times the action of (author, tick, seq) is in the commits of p; *)
(* the payload of a remote proposal names its tick and seq.                 *)
Occurrences(p, action) ==
  Cardinality({ki \in {x \in (1..Len(Commits(p))) \X (1..(MaxActions + 2 * (MaxSeq + 1))) :
                         x[2] <= Len(Commits(p)[x[1]].actions)} :
                 Commits(p)[ki[1]].actions[ki[2]] = action})

(* C9: a second delivery of a recorded ACTION_PROPOSE or ACTION_SEAL       *)
(* leaves the proposal buffer and the seal buffer as they are, and no       *)
(* action is in the commits more than once.                                 *)
C9_Idempotent ==
  \A p \in Procs :
    /\ \A q \in Remote :
         \A msg \in FramesFrom(q) :
           link[<<p, q>>] = "open" /\ Recorded(ord[p], msg)
             => LET o == handleMessage(ord[p], q, NODE_TOPIC, msg, wall[p])
                IN  o.buffer = ord[p].buffer /\ o.seals = ord[p].seals
    /\ \A k \in 1..Len(Commits(p)) :
         \A i \in 1..Len(Commits(p)[k].actions) :
           Occurrences(p, Commits(p)[k].actions[i]) = 1

(* A holds a seal of C for a tick it has not committed, and C is connected. *)
C9_Witness ==
  /\ link[<<"A", "C">>] = "open"
  /\ \E t \in DOMAIN ord["A"].seals : Has(ord["A"].seals[t], "C")

(* The tick a committed action was proposed for. *)
ProposedFor(p, action) ==
  IF action.peerId = p
  THEN {a.tick : a \in {x \in accepted[p] : x.payload = action.payload}}
  ELSE {action.payload.n \div 10}

(* C10: a local action whose targetTick is at most committedTick, and an   *)
(* incoming ACTION_PROPOSE or ACTION_SEAL whose tick is at most             *)
(* committedTick, leave the ordering as it is and broadcast nothing; a      *)
(* commit holds only actions proposed for its own tick.                     *)
C10_LateDrop ==
  \A p \in Procs :
    /\ \A nowMs \in Times : \A n \in 1..MaxActions :
         targetTickOf(ord[p], nowMs) <= ord[p].committedTick
           => onLocalAction(ord[p], PayloadOf(p, n), nowMs) = ord[p]
    /\ \A q \in Remote : \A msg \in FramesFrom(q) :
         msg.tick <= ord[p].committedTick
           => handleMessage(ord[p], q, NODE_TOPIC, msg, wall[p]) = ord[p]
    /\ last.op = "handleMessage"
         /\ last.msg.type \in {"ACTION_PROPOSE", "ACTION_SEAL"}
         /\ last.msg.tick <= last.committedTick
         => last.sent = <<>>
    /\ \A k \in 1..Len(Commits(p)) :
         \A i \in 1..Len(Commits(p)[k].actions) :
           ProposedFor(p, Commits(p)[k].actions[i]) = {TickOf(Commits(p)[k])}

(* A has dropped a late frame of B for a tick it had committed. *)
C10_Witness ==
  /\ last.op = "handleMessage"
  /\ last.msg.type \in {"ACTION_PROPOSE", "ACTION_SEAL"}
  /\ last.committedTick >= 1
  /\ last.msg.tick <= last.committedTick
  /\ Len(Commits("A")) >= 1

(* The peers that have an entry in the proposal buffer or the seal buffer  *)
(* of o.                                                                    *)
Authors(o) ==
  UNION {DOMAIN o.buffer[t] : t \in DOMAIN o.buffer}
    \cup UNION {DOMAIN o.seals[t] : t \in DOMAIN o.seals}

(* C11: an ACTION_PROPOSE or ACTION_SEAL whose peerId is not the peer that *)
(* sent it leaves the proposal buffer and the seal buffer as they are; so   *)
(* a peer that sends nothing has no entry in the buffers, no seal counted   *)
(* by a commit and no action in a commit, and the entries under the local   *)
(* identity are those the local peer made itself.                           *)
C11_SpoofGuard ==
  \A p \in Procs :
    /\ \A q \in Remote :
         \A r \in Range(PeerIds) \ {q} :
           \A msg \in FramesFrom(r) :
             LET o == handleMessage(ord[p], q, NODE_TOPIC, msg, wall[p])
             IN  o.buffer = ord[p].buffer /\ o.seals = ord[p].seals
    /\ Authors(ord[p]) \cap env.mute = {}
    /\ \A k \in 1..Len(Commits(p)) :
         /\ Commits(p)[k].sealers \cap env.mute = {}
         /\ \A i \in 1..Len(Commits(p)[k].actions) :
              Commits(p)[k].actions[i].peerId \notin env.mute
    /\ \A t \in DOMAIN ord[p].buffer :
         Has(ord[p].buffer[t], p)
           => \A i \in 1..Len(ord[p].buffer[t][p]) :
                \E a \in accepted[p] :
                  a.tick = t /\ a.seq = ord[p].buffer[t][p][i].seq
    /\ \A t \in DOMAIN ord[p].seals :
         Has(ord[p].seals[t], p) => t \in SealedSoFar(p)

(* B has just sent A a seal under the identity of C, which is connected    *)
(* and eligible, for the next tick to commit: A and B have sealed the tick  *)
(* and the clock allows its commit, so the seal of C is all the barrier     *)
(* waits for.                                                               *)
C11_Witness ==
  LET o == ord["A"]
      t == o.committedTick + 1
  IN  /\ last.op = "handleMessage"
      /\ last.from = "B"
      /\ last.msg.type = "ACTION_SEAL"
      /\ last.msg.roomId = RoomId
      /\ last.msg.peerId = "C"
      /\ last.msg.tick = t
      /\ link[<<"A", "C">>] = "open"
      /\ Get(o.peerFirstTick, "C", t + 1) <= t
      /\ t <= maxCommittableTick(o)
      /\ Has(Get(o.seals, t, EmptyMap), "A")
      /\ Has(Get(o.seals, t, EmptyMap), "B")

(* Every frame a peer q can put on the wire within the bounds, as a peer   *)
(* configured for the room rm sends it.                                     *)
FramesOfRoom(q, rm) ==
  {[m EXCEPT !.roomId = rm] : m \in FramesFrom(q)}
    \cup {[type |-> "SYNC_CLOCK", roomId |-> rm, peerId |-> q, tick |-> t] :
            t \in 0..MaxTick}
    \cup {CommitFrame(rm, t) : t \in 0..MaxTick}

(* C12: an incoming ACTION_PROPOSE, ACTION_SEAL, ACTION_COMMIT or          *)
(* SYNC_CLOCK whose roomId is not the roomId of the local configuration     *)
(* leaves the whole ordering as it is.                                      *)
C12_RoomGuard ==
  \A p \in Procs :
    \A q \in Remote :
      \A rm \in env.rooms \ {RoomId} :
        \A msg \in FramesOfRoom(q, rm) :
          link[<<p, q>>] = "open"
            => handleMessage(ord[p], q, NODE_TOPIC, msg, wall[p]) = ord[p]

(* A has just taken a seal of B that carries the empty roomId, and the     *)
(* call emitted a commit.                                                   *)
C12_Witness ==
  /\ last.op = "handleMessage"
  /\ last.msg.type = "ACTION_SEAL"
  /\ last.msg.roomId = ""
  /\ last.msg.roomId # RoomId
  /\ last.sent # <<>>

(* The firstEligibleTick a connecting peer is to get, from the currentTick *)
(* the event finds.                                                         *)
FirstEligibleFor(o) ==
  IF o.currentTick = -1 THEN InputDelayTicks
  ELSE o.currentTick + InputDelayTicks

(* C13: peer_connected for P sets firstEligibleTick(P) to inputDelayTicks  *)
(* when currentTick is -1 and to currentTick + inputDelayTicks otherwise;   *)
(* and a commit lacks the seal of a member only for a tick below that       *)
(* member's firstEligibleTick.                                              *)
C13_LateJoin ==
  \A p \in Procs :
    /\ \A q \in (Procs \cup Remote) \ {p} :
         link[<<p, q>>] = "new"
           => handlePeerEvent(ord[p], "peer_connected", q, wall[p]).peerFirstTick[q]
                = FirstEligibleFor(ord[p])
    /\ \A k \in 1..Len(Commits(p)) :
         \A q \in Commits(p)[k].members \ Commits(p)[k].sealers :
           q \notin Commits(p)[k].eligible

(* B is connected; A has committed one tick for which B was not yet        *)
(* eligible and a later tick for which it was.                              *)
C13_Witness ==
  /\ link[<<"A", "B">>] = "open"
  /\ \E i \in 1..Len(Commits("A")), j \in 1..Len(Commits("A")) :
       /\ i < j
       /\ "B" \in Commits("A")[i].members \ Commits("A")[i].eligible
       /\ "B" \in Commits("A")[j].eligible

(* The next tick to commit has its barrier met and its seal deadline       *)
(* passed: a commit attempt on o would emit it.                             *)
CommitDue(o) ==
  /\ o.committedTick + 1 <= o.currentTick - InputDelayTicks
  /\ canCommitTick(o, o.committedTick + 1)

(* C14: when peer_disconnected for P has been handled, P is no member and  *)
(* no commit the barrier allows is left to emit; the commits emitted        *)
(* without P in the membership neither count P as eligible nor hold an      *)
(* action of P.                                                             *)
C14_DisconnectUnblocks ==
  \A p \in Procs :
    /\ \A q \in (Procs \cup Remote) \ {p} :
         link[<<p, q>>] = "open"
           => LET o == handlePeerEvent(ord[p], "peer_disconnected", q, wall[p])
              IN  /\ q \notin Range(getPeers(o))
                  /\ ~CommitDue(o)
    /\ \A k \in 1..Len(Commits(p)) :
         \A q \in Range(PeerIds) \ Commits(p)[k].members :
           /\ q \notin Commits(p)[k].eligible
           /\ \A i \in 1..Len(Commits(p)[k].actions) :
                Commits(p)[k].actions[i].peerId # q

(* C has disconnected from A; A committed a tick that waited for the seal  *)
(* of C and, later, a tick without C in the membership.                     *)
C14_Witness ==
  /\ link[<<"A", "C">>] = "closed"
  /\ \E i \in 1..Len(Commits("A")), j \in 1..Len(Commits("A")) :
       /\ i < j
       /\ "C" \in Commits("A")[i].eligible
       /\ "C" \notin Commits("A")[j].members
       /\ "B" \in Commits("A")[j].eligible

SyncClock(peerId, r) ==
  [type |-> "SYNC_CLOCK", roomId |-> RoomId, peerId |-> peerId, tick |-> r]

(* What C15 asks of the ordering o2 that a SYNC_CLOCK of tick r leaves     *)
(* when it warps the ordering o1.                                           *)
Warped(o1, o2, r) ==
  /\ o2.currentTick = r
  /\ \A t \in 0..(r - 1 + InputDelayTicks) :
       \/ /\ t > o2.committedTick
          /\ Has(Get(o2.seals, t, EmptyMap), o2.self)
          /\ t \in o2.sealedTicks
       \/ /\ t <= o2.committedTick
          /\ t > o1.committedTick
               => \E k \in 1..Len(o2.commits) :
                    /\ TickOf(o2.commits[k]) = t
                    /\ o2.self \in o2.commits[k].sealers
  /\ DOMAIN o2.peerFirstTick = DOMAIN o1.peerFirstTick
  /\ \A q \in DOMAIN o1.peerFirstTick :
       o2.peerFirstTick[q] = Max(o1.peerFirstTick[q], r + InputDelayTicks)

tickAt(t0Ms, nowMs) ==
  IF nowMs < t0Ms THEN -1 ELSE (nowMs - t0Ms) \div TickMs

(* C16: the tick computed for the wall time nowMs is                       *)
(* floor((nowMs - t0Ms) / tickMs) when nowMs >= t0Ms and -1 when            *)
(* nowMs < t0Ms; so while the wall clock is before t0Ms the ordering has    *)
(* started no tick, sealed nothing and accepted no action.                  *)
C16_TickClock ==
  \A p \in Procs :
    /\ \A nowMs \in Times \cup {TimeAt(0), wall[p]} :
         computeTick(ord[p], nowMs) = tickAt(ord[p].t0Ms, nowMs)
    /\ wall[p] < ord[p].t0Ms
         => /\ ord[p].currentTick = -1
            /\ sealLog[p] = <<>>
            /\ accepted[p] = {}

(* The wall clock of A is before t0Ms, and A has started tick 0 and       *)
(* accepted an action for tick inputDelayTicks.                             *)
C16_Witness ==
  /\ wall["A"] < ord["A"].t0Ms
  /\ ord["A"].currentTick = 0
  /\ \E a \in accepted["A"] : a.tick = InputDelayTicks

(* C17: append resolves only for a commit whose seq is latestHeight() + 1  *)
(* and then stores it at the end; any other append rejects with the        *)
(* mismatch error and leaves the store as it is; so after any sequence of   *)
(* append and clear calls the stored seqs are 1..latestHeight() in order.   *)
C17_AppendContract ==
  \A p \in Procs :
    /\ \A c \in LogCommits :
         LET r == append(log[p], c)
         IN  IF c.seq = latestHeight(log[p]) + 1
             THEN r.ok /\ r.store.commits = Append(log[p].commits, c)
             ELSE ~r.ok /\ r.value = "Sequence mismatch" /\ r.store = log[p]
    /\ \A i \in 1..latestHeight(log[p]) : log[p].commits[i].seq = i

(* The store holds two commits and has just rejected an append of seq 2. *)
C17_Witness ==
  /\ latestHeight(log["A"]) = 2
  /\ ret.op = "append"
  /\ ~ret.ok
  /\ ret.args[1].seq = 2

(* The stored commits whose seq is in [fromHeight, toHeight], in the order *)
(* of the store.                                                            *)
InRange(s, fromHeight, toHeight) ==
  SelectSeq(s.commits, LAMBDA c : fromHeight <= c.seq /\ c.seq <= toHeight)

(* C19: getRange(from, to) resolves with exactly the stored commits whose  *)
(* seq is in [from, to], in ascending seq, for all integer arguments; the   *)
(* result is empty when no stored commit is in the range.                   *)
C19_GetRange ==
  \A p \in Procs :
    \A fromHeight \in RangeArgs, toHeight \in RangeArgs :
      LET r == getRange(log[p], fromHeight, toHeight)
      IN  /\ r.ok
          /\ r.store = log[p]
          /\ r.value = InRange(log[p], fromHeight, toHeight)

(* getRange was called with a negative toHeight on a store that holds      *)
(* commits and resolved with some of them.                                  *)
C19_Witness ==
  /\ ret.op = "getRange"
  /\ ret.args[2] < 0
  /\ ret.value # <<>>
  /\ InRange(log["A"], ret.args[1], ret.args[2]) = <<>>

(* C18: IndexedDbLogStore.append resolves only for a commit whose seq is   *)
(* latestHeight() + 1, and any other append rejects and leaves the records  *)
(* as they are; an append replaces no stored record; and the stored         *)
(* heights are 1..latestHeight() without gaps.                              *)
C18_IdbContract ==
  /\ \A c \in LogCommits :
       LET r == idbAppend(idb, c)
       IN  /\ IF c.seq = idbLatestHeight(idb).value + 1
              THEN r.ok /\ r.store.records = Put(idb.records, c.seq, c)
              ELSE ~r.ok /\ r.store.records = idb.records
           /\ \A k \in DOMAIN idb.records :
                r.store.records[k] = idb.records[k]
  /\ DOMAIN idb.records = 1..idbLatestHeight(idb).value

(* An append of seq 3 has resolved on a database that holds no record of   *)
(* seq 2.                                                                   *)
C18_Witness ==
  /\ ret.op = "append"
  /\ ret.ok
  /\ ret.args[1].seq = 3
  /\ DOMAIN idb.records = {1, 3}

----------------------------------------------------------------------------
(* An engine driven by hand, as the engine test does: systems are          *)
(* registered and actions are reduced on the state the engine last          *)
(* returned. eng.registered is the order of the addSystem calls; eng.before, *)
(* eng.action and eng.meta are the arguments of the latest reduce.          *)
MaxSystems == 2

MaxCalls == 4

EngineSystems == {"doubler", "marker"}

EngineCounts == {0, 5, 95, 100}

EngineActions ==
  {[type |-> "INC", payload |-> 5], [type |-> "INC", payload |-> 10],
   [type |-> "NOP", payload |-> 0]}

EngineMetas == {[from |-> "A", height |-> h, orderingTick |-> h] : h \in 1..2}

EngineCall(e) ==
  /\ eng' = e
  /\ UNCHANGED <<ord, wall, chan, link, env, submitted, accepted, sealLog,
                 heard, last, commitQueue, storeVars, node, net>>

EngineAddSystem ==
  /\ Len(eng.engine.systems) < MaxSystems
  /\ \E system \in EngineSystems :
       EngineCall([eng EXCEPT !.engine = addSystem(@, system),
                              !.registered = Append(@, system),
                              !.op = "addSystem"])

EngineReduce ==
  /\ Len(eng.state.calls) < MaxCalls
  /\ \E action \in EngineActions, meta \in EngineMetas :
       EngineCall([eng EXCEPT !.state = reduce(eng.engine, @, action, meta),
                              !.before = eng.state, !.action = action,
                              !.meta = meta, !.op = "reduce"])

NextEngine ==
  \/ EngineAddSystem
  \/ EngineReduce

InitEngine ==
  /\ InitCore({"A"}, {}, Honest({}, TimeAt(1), FALSE), FALSE)
  /\ net = NoTransport
  /\ eng \in {[NoEngine EXCEPT !.engine = NewEngine(rule),
                                !.state = [InitialState EXCEPT !.count = c]] :
                 rule \in {"counter", "recorder"}, c \in EngineCounts}

SpecEngine == InitEngine /\ [][NextEngine]_vars

(* C26: reduce on an action that isLegal refuses returns the state it was  *)
(* given, whatever the engine, the state, the action and the meta: the      *)
(* counter is the same and no call of rule.apply or of a system is added    *)
(* to the record of calls.                                                  *)
C26_IllegalKeepsState ==
  \A action \in EngineActions, meta \in EngineMetas :
    ~isLegal(eng.engine, eng.state, action, meta).ok
      => reduce(eng.engine, eng.state, action, meta) = eng.state

(* A refused INC was reduced on an engine with two systems. *)
C26_Witness ==
  /\ eng.op = "reduce"
  /\ ~isLegal(eng.engine, eng.before, eng.action, eng.meta).ok
  /\ Len(eng.engine.systems) = MaxSystems
  /\ eng.state = eng.before

(* The counter a legal reduce must leave: the rule adds the payload of an  *)
(* INC, and a doubler that meets the count 10 makes it 20.                  *)
CountAfter(rule, registered, state, action) ==
  LET c == IF rule = "counter" /\ action.type = "INC"
           THEN state.count + action.payload ELSE state.count
  IN  IF "doubler" \in Range(registered) /\ c = DoublerAt THEN 2 * DoublerAt ELSE c

(* C27: a legal reduce adds to the record of calls one call of rule.apply  *)
(* with the action and the meta, then one call of update for each           *)
(* registered system in the order of the addSystem calls, and nothing       *)
(* else; the counter is the one the rule and then the systems make.         *)
C27_ApplyThenSystems ==
  (eng.op = "reduce" /\ isLegal(eng.engine, eng.before, eng.action, eng.meta).ok)
    => LET n == Len(eng.before.calls)
           calls == eng.state.calls
       IN  /\ Len(calls) = n + 1 + Len(eng.registered)
           /\ SubSeq(calls, 1, n) = eng.before.calls
           /\ calls[n + 1] = [call |-> "apply", action |-> eng.action,
                               meta |-> eng.meta]
           /\ \A i \in 1..Len(eng.registered) :
                calls[n + 1 + i] = [call |-> "update", id |-> eng.registered[i]]
           /\ eng.state.count =
                CountAfter(eng.engine.rule, eng.registered, eng.before, eng.action)

(* The CounterEngine with the marker and then the doubler reduced INC 5    *)
(* twice: the second reduce met 10 and left 20.                             *)
C27_Witness ==
  /\ eng.op = "reduce"
  /\ eng.engine.rule = "counter"
  /\ eng.registered = <<"marker", "doubler">>
  /\ eng.before.count = 5
  /\ eng.action.type = "INC"
  /\ eng.state.count = 2 * DoublerAt
(* C30: when the ordering of p has handled an ACTION_SEAL for the tick     *)
(* after its committed tick, and p's own seal and the seal of every peer    *)
(* the barrier asks for are there for that tick, the tick is committed when *)
(* the handler returns.                                                     *)
C30_CommitOnSeal ==
  \A p \in Procs :
    (/\ last.op = "handleMessage"
     /\ last.p = p
     /\ last.msg.type = "ACTION_SEAL"
     /\ last.msg.tick = last.committedTick + 1
     /\ Has(Get(ord[p].seals, last.msg.tick, EmptyMap), p)
     /\ Has(Get(ord[p].seals, last.msg.tick, EmptyMap), last.from)
     /\ canCommitTick(ord[p], last.msg.tick))
      => ord[p].committedTick >= last.msg.tick

(* A seal of B for the tick after the committed one arrived when A's clock *)
(* was past that tick by the input delay: the handler emitted the commit.   *)
C30_Witness ==
  /\ last.op = "handleMessage"
  /\ last.msg.type = "ACTION_SEAL"
  /\ last.msg.tick = last.committedTick + 1
  /\ ord["A"].committedTick = last.msg.tick
  /\ Len(last.sent) = 1
  /\ last.sent[1].type = "ACTION_COMMIT"
----------------------------------------------------------------------------
(* An application that starts and stops its ordering, while peers of the   *)
(* transport connect, send frames and close.                                *)
MaxLifecycle == 4

MaxEvents == 3

LifeCall(n) ==
  /\ net' = n
  /\ UNCHANGED <<ord, wall, chan, link, env, submitted, accepted, sealLog,
                 heard, last, commitQueue, storeVars, node, eng>>

LifeStart ==
  /\ net.calls < MaxLifecycle
  /\ LifeCall([start(net) EXCEPT !.op = "start", !.calls = @ + 1])

LifeStop ==
  /\ net.calls < MaxLifecycle
  /\ LifeCall([stop(net) EXCEPT !.op = "stop", !.calls = @ + 1])

(* dc.onopen: every peer-event handler of the transport gets peer_connected, *)
(* and each handlePeerEvent calls the callback of the application once.      *)
LifeConnect(q) ==
  /\ net.transport.started
  /\ q \notin net.transport.peers
  /\ net.events < MaxEvents
  /\ LifeCall([net EXCEPT !.op = "peer_event", !.events = @ + 1,
                          !.transport.peers = @ \cup {q},
                          !.fired = Len(net.transport.peerEventHandlers)])

(* dc.onclose: removePeer. *)
LifeClose(q) ==
  /\ q \in net.transport.peers
  /\ net.events < MaxEvents
  /\ LifeCall([net EXCEPT !.op = "peer_event", !.events = @ + 1,
                          !.transport.peers = @ \ {q},
                          !.fired = Len(net.transport.peerEventHandlers)])

(* dc.onmessage: every message handler of the transport gets the frame. *)
LifeMessage(q) ==
  /\ q \in net.transport.peers
  /\ net.events < MaxEvents
  /\ LifeCall([net EXCEPT !.op = "message", !.events = @ + 1,
                          !.handled = Len(net.transport.messageHandlers)])

NextLife ==
  \/ LifeStart
  \/ LifeStop
  \/ \E q \in {"B", "C"} : LifeConnect(q)
  \/ \E q \in {"B", "C"} : LifeClose(q)
  \/ \E q \in {"B", "C"} : LifeMessage(q)

InitLife ==
  /\ InitCore({"A"}, {}, Honest({}, TimeAt(1), FALSE), FALSE)
  /\ eng = NoEngine
  /\ net = NoTransport

SpecLife == InitLife /\ [][NextLife]_vars

(* C28: whatever start() and stop() calls were made, the transport holds   *)
(* at most one message handler and at most one peer-event handler of the    *)
(* ordering; an incoming frame is handled once and a peer event of the      *)
(* transport reaches the application's onPeerEvent callback once.           *)
C28_LifecycleIdempotent ==
  /\ Len(net.transport.messageHandlers) <= 1
  /\ Len(net.transport.peerEventHandlers) <= 1
  /\ net.op = "message" => net.handled = 1
  /\ net.op = "peer_event" => net.fired = 1

(* start() twice, then a peer connected and sent a frame: one handler of   *)
(* each kind, the frame handled once.                                       *)
C28_Witness ==
  /\ net.calls = 2
  /\ net.started
  /\ net.transport.peers # {}
  /\ net.op = "message"
  /\ net.handled = 1
  /\ Len(net.transport.peerEventHandlers) = 1
----------------------------------------------------------------------------
(* The frame codec of the WebRTC transports. A string is the sequence of   *)
(* its UTF-16 code units, a Uint8Array the sequence of its bytes. To hold   *)
(* topics of 65,535 bytes and more, a sequence is written as a record       *)
(* [pre, pad, post]: the elements of pre, then pad times the letter "a"     *)
(* (code unit and byte 97), then the elements of post.                      *)
LetterA == 97

Explicit(q) == [pre |-> q, pad |-> 0, post |-> <<>>]

Length(P) == Len(P.pre) + P.pad + Len(P.post)

At(P, i) ==
  IF i <= Len(P.pre) THEN P.pre[i]
  ELSE IF i <= Len(P.pre) + P.pad THEN LetterA
  ELSE P.post[i - Len(P.pre) - P.pad]

(* The elements from..to of P, counted from 1. *)
subarray(P, from, to) ==
  LET a == Len(P.pre)
      b == a + P.pad
      pre == SubSeq(P.pre, from, Min(to, a))
      pad == Max(0, Min(to, b) - Max(from, a + 1) + 1)
      post == SubSeq(P.post, Max(from - b, 1), to - b)
  IN  IF pad = 0 THEN Explicit(pre \o post)
      ELSE [pre |-> pre, pad |-> pad, post |-> post]

IsHigh(u) == u >= 55296 /\ u <= 56319

IsLow(u) == u >= 56320 /\ u <= 57343

Replacement == 65533

ByteOrderMark == 65279

(* The UTF-8 bytes of one code point. *)
Utf8Of(cp) ==
  IF cp < 128 THEN <<cp>>
  ELSE IF cp < 2048 THEN <<192 + (cp \div 64), 128 + (cp % 64)>>
  ELSE IF cp < 65536
       THEN <<224 + (cp \div 4096), 128 + ((cp \div 64) % 64), 128 + (cp % 64)>>
       ELSE <<240 + (cp \div 262144), 128 + ((cp \div 4096) % 64),
              128 + ((cp \div 64) % 64), 128 + (cp % 64)>>

(* TextEncoder.encode on code units: a surrogate pair is one code point, a *)
(* surrogate without its partner is encoded as U+FFFD.                      *)
RECURSIVE Utf8(_)
Utf8(units) ==
  IF units = <<>> THEN <<>>
  ELSE LET u == Head(units)
           paired == IsHigh(u) /\ Len(units) >= 2 /\ IsLow(units[2])
           cp == IF paired
                 THEN 65536 + (u - 55296) * 1024 + (units[2] - 56320)
                 ELSE IF IsHigh(u) \/ IsLow(u) THEN Replacement ELSE u
       IN  Utf8Of(cp) \o Utf8(IF paired THEN Tail(Tail(units)) ELSE Tail(units))

Cont(b) == b >= 128 /\ b <= 191

(* The code units of one code point. *)
Utf16Of(cp) ==
  IF cp < 65536 THEN <<cp>>
  ELSE <<55296 + ((cp - 65536) \div 1024), 56320 + ((cp - 65536) % 1024)>>

(* The UTF-8 decoder of TextDecoder: a byte that begins no well-formed      *)
(* sequence gives U+FFFD.                                                   *)
RECURSIVE Utf16(_)
Utf16(bytes) ==
  IF bytes = <<>> THEN <<>>
  ELSE LET b == Head(bytes)
           n == Len(bytes)
       IN  IF b < 128 THEN <<b>> \o Utf16(Tail(bytes))
           ELSE IF b >= 194 /\ b <= 223 /\ n >= 2 /\ Cont(bytes[2])
           THEN Utf16Of((b - 192) * 64 + (bytes[2] - 128))
                  \o Utf16(SubSeq(bytes, 3, n))
           ELSE IF /\ b >= 224 /\ b <= 239 /\ n >= 3
                   /\ Cont(bytes[2]) /\ Cont(bytes[3])
                   /\ (b = 224 => bytes[2] >= 160)
                   /\ (b = 237 => bytes[2] <= 159)
           THEN Utf16Of((b - 224) * 4096 + (bytes[2] - 128) * 64 + (bytes[3] - 128))
                  \o Utf16(SubSeq(bytes, 4, n))
           ELSE IF /\ b >= 240 /\ b <= 244 /\ n >= 4
                   /\ Cont(bytes[2]) /\ Cont(bytes[3]) /\ Cont(bytes[4])
                   /\ (b = 240 => bytes[2] >= 144)
                   /\ (b = 244 => bytes[2] <= 143)
           THEN Utf16Of((b - 240) * 262144 + (bytes[2] - 128) * 4096
                          + (bytes[3] - 128) * 64 + (bytes[4] - 128))
                  \o Utf16(SubSeq(bytes, 5, n))
           ELSE <<Replacement>> \o Utf16(Tail(bytes))

(* new TextDecoder() has ignoreBOM false: a byte order mark at the start   *)
(* of the input is not part of the decoded string.                          *)
StripBOM(units) ==
  IF units # <<>> /\ Head(units) = ByteOrderMark THEN Tail(units) ELSE units

textEncode(T) ==
  IF T.pad = 0 THEN Explicit(Utf8(T.pre \o T.post))
  ELSE [pre |-> Utf8(T.pre), pad |-> T.pad, post |-> Utf8(T.post)]

textDecode(P) ==
  IF P.pad = 0 THEN Explicit(StripBOM(Utf16(P.pre \o P.post)))
  ELSE [pre |-> StripBOM(Utf16(P.pre)), pad |-> P.pad, post |-> Utf16(P.post)]

TopicLimit == 65535

encodeMessage(msg) ==
  LET topicBytes == textEncode(msg.topic)
      n == Length(topicBytes)
  IN  IF n > TopicLimit
      THEN [ok |-> FALSE, value |-> "RangeError: Topic is too long (max 65535 bytes)."]
      ELSE [ok |-> TRUE,
            value |-> [pre |-> <<n % 256, (n \div 256) % 256>> \o topicBytes.pre,
                       pad |-> topicBytes.pad,
                       post |-> topicBytes.post \o msg.payload]]

decodeMessage(bytes) ==
  IF Length(bytes) < 2
  THEN [ok |-> FALSE, value |-> "RangeError: Frame too short to contain a header."]
  ELSE LET topicLen == At(bytes, 1) + At(bytes, 2) * 256
       IN  IF Length(bytes) < 2 + topicLen
           THEN [ok |-> FALSE,
                 value |-> "RangeError: Frame too short for the declared topic length."]
           ELSE [ok |-> TRUE,
                 value |-> [topic |-> textDecode(subarray(bytes, 3, 2 + topicLen)),
                            payload |-> subarray(bytes, 3 + topicLen, Length(bytes))]]

(* A peer that encodes messages and decodes the frames it made, and frames *)
(* of a few bytes that arrive from elsewhere.                               *)
MaxTopicUnits == 2

CodeUnits == {LetterA, 233, ByteOrderMark, 55357, 56832}

TopicPads == {0, TopicLimit - 3, TopicLimit - 1, TopicLimit, TopicLimit + 1}

Topics ==
  {[pre |-> pre, pad |-> pad, post |-> <<>>] :
     pre \in UNION {[1..k -> CodeUnits] : k \in 0..MaxTopicUnits},
     pad \in TopicPads}

Payloads == {<<>>, <<0>>, <<LetterA, 255>>}

TransportMessages == {[topic |-> t, payload |-> p] : t \in Topics, p \in Payloads}

RawFrames ==
  {Explicit(q) : q \in UNION {[1..k -> {0, 1, 2, LetterA}] : k \in 0..3}}

CodecCall(op, args, r) ==
  /\ ret' = [op |-> op, args |-> args, ok |-> r.ok, value |-> r.value]
  /\ UNCHANGED <<ord, wall, chan, link, env, submitted, accepted, sealLog,
                 heard, last, commitQueue, log, idb, node, appVars>>

CodecEncode ==
  \E msg \in TransportMessages :
    CodecCall("encodeMessage", <<msg>>, encodeMessage(msg))

(* The frame the latest encodeMessage returned is decoded. *)
CodecDecode ==
  /\ ret.op = "encodeMessage"
  /\ ret.ok
  /\ CodecCall("decodeMessage", <<ret.value, ret.args[1]>>, decodeMessage(ret.value))

CodecReceive ==
  \E bytes \in RawFrames : CodecCall("receive", <<bytes>>, decodeMessage(bytes))

NextCodec ==
  \/ CodecEncode
  \/ CodecDecode
  \/ CodecReceive

SpecCodec == InitLog /\ [][NextCodec]_vars

(* C29: encodeMessage of a message whose topic has at most 65,535 UTF-8    *)
(* bytes returns a frame whose first two bytes are the topic length, low    *)
(* byte first, and decodeMessage of that frame returns the topic and the    *)
(* payload of the message; encodeMessage of a longer topic fails;           *)
(* decodeMessage of a frame of fewer than 2 bytes, or of fewer bytes than 2  *)
(* plus the length its header declares, fails.                              *)
C29_FrameRoundTrip ==
  /\ ret.op = "encodeMessage"
       => LET n == Length(textEncode(ret.args[1].topic))
          IN  /\ ret.ok <=> n <= TopicLimit
              /\ ret.ok => /\ At(ret.value, 1) = n % 256
                            /\ At(ret.value, 2) = n \div 256
  /\ ret.op = "decodeMessage"
       => /\ ret.ok
          /\ ret.value.topic = ret.args[2].topic
          /\ ret.value.payload = Explicit(ret.args[2].payload)
  /\ ret.op = "receive"
       => LET bytes == ret.args[1]
          IN  (Length(bytes) < 2 \/ Length(bytes) < 2 + (bytes.pre[1] + 256 * bytes.pre[2]))
                => ~ret.ok

(* A message with a two-letter topic followed by 65,533 letters "a" and a  *)
(* payload of two bytes came back from the codec as it went in.              *)
C29_Witness ==
  /\ ret.op = "decodeMessage"
  /\ ret.ok
  /\ Length(ret.args[2].topic) > MaxTopicUnits
  /\ Len(ret.args[2].payload) = 2
  /\ ret.value.topic = ret.args[2].topic
  /\ ret.value.payload = Explicit(ret.args[2].payload)
----------------------------------------------------------------------------
(* A GameNode, A, with its ordering, its MemoryLogStore and an engine with  *)
(* two schedulers, and the remote peer B. submit() is CallOnLocalAction     *)
(* with env.optimistic; the callbacks of the commit queue run in two steps, *)
(* before and after the await of log.append.                                *)
StartCommit(p) ==
  /\ commitQueue[p] # <<>>
  /\ chained(node[p])
  /\ LET r == append(log[p], Head(commitQueue[p]))
     IN  /\ log' = [log EXCEPT ![p] = r.store]
         /\ node' = [node EXCEPT ![p] = startCommit(@, Head(commitQueue[p]), r.ok)]
  /\ commitQueue' = [commitQueue EXCEPT ![p] = Tail(@)]
  /\ UNCHANGED <<ord, wall, chan, link, env, submitted, accepted, sealLog,
                 heard, last, idb, ret, appVars>>

FinishCommit(p) ==
  /\ node[p].running # <<>>
  /\ node' = [node EXCEPT ![p] = finishCommit(@)]
  /\ UNCHANGED <<ord, wall, chan, link, env, submitted, accepted, sealLog,
                 heard, last, commitQueue, storeVars, appVars>>

NextGame ==
  \/ \E p \in Procs : AdvanceClock(p)
  \/ \E p \in Procs : CallTick(p)
  \/ \E p \in Procs : CallOnLocalAction(p)
  \/ \E pq \in DOMAIN link : PeerConnected(pq[1], pq[2])
  \/ \E pq \in DOMAIN link : PeerDisconnected(pq[1], pq[2])
  \/ \E p \in Procs : FireSyncTimer(p)
  \/ \E pq \in DOMAIN link : ReceiveRemote(pq[1], pq[2])
  \/ \E p \in Procs : StartCommit(p)
  \/ \E p \in Procs : FinishCommit(p)

(* The engine of the GameNode: the scheduler "weather", due at every        *)
(* second tick from tick 0, registered before the scheduler "growth", due   *)
(* at every tick from tick 1.                                               *)
GameEngine ==
  addScheduler(addScheduler(NewEngine("recorder"), Every("weather", 2, 0)),
               Every("growth", 1, 1))

InitGame ==
  InitWith({"A"}, {"B"},
           [Honest({"B"}, TimeAt(MaxTimeIdx), FALSE)
              EXCEPT !.gameNode = TRUE, !.optimistic = TRUE, !.engine = GameEngine],
           FALSE)

SpecGame == InitGame /\ [][NextGame]_vars

(* The same GameNode submitting up to two actions, with a remote peer B    *)
(* that only seals.                                                         *)
InitGame2 ==
  InitWith({"A"}, {"B"},
           [Honest({}, TimeAt(MaxTimeIdx), FALSE)
              EXCEPT !.gameNode = TRUE, !.optimistic = TRUE, !.engine = GameEngine,
                     !.actions = MaxActions + 1],
           FALSE)

SpecGame2 == InitGame2 /\ [][NextGame]_vars

(* The GameNode is given, as opts.log, a log store that holds one commit   *)
(* of an earlier run; B only seals.                                          *)
StoredLog ==
  append(NewMemoryLogStore,
         [seq |-> 1, actions |-> <<>>, metadata |-> [orderingTick |-> 1]]).store

InitStale ==
  InitWith({"A"}, {"B"},
           [Honest({}, TimeAt(MaxTimeIdx), FALSE)
              EXCEPT !.gameNode = TRUE, !.optimistic = TRUE, !.engine = GameEngine,
                     !.log = StoredLog],
           FALSE)

SpecStale == InitStale /\ [][NextGame]_vars

(* C22: the callbacks of the commit queue run one after the other in the   *)
(* order the ordering emitted the commits: in the record of the pipeline    *)
(* every "start" is followed by the "end" of the same commit before the     *)
(* next "start", and the k-th callback is the one of the k-th commit.       *)
C22_PipelineSerialized ==
  \A p \in Procs :
    LET ev == node[p].pipeline
    IN  /\ \A i \in 1..Len(ev) :
             IF i % 2 = 1
             THEN /\ ev[i].ev = "start"
                  /\ ev[i].seq = Commits(p)[(i + 1) \div 2].seq
             ELSE /\ ev[i].ev = "end"
                  /\ ev[i].seq = ev[i - 1].seq
        /\ Len(node[p].running) <= 1
        /\ Len(node[p].running) = Len(ev) % 2

(* The first callback waits for its log.append while the second commit is *)
(* queued behind it and a submitted action is pending.                       *)
C22_Witness ==
  /\ Len(node["A"].pipeline) = 1
  /\ node["A"].running # <<>>
  /\ commitQueue["A"] # <<>>
  /\ node["A"].pendingActions # <<>>

(* The actions p submitted, in the order of the submit() calls. *)
LocalActions(p) == [n \in 1..submitted[p] |-> PayloadOf(p, n)]

(* The commits whose callback ran to its end with the append taken. *)
Processed(p) ==
  {c \in Range(Commits(p)) :
     \E e \in Range(node[p].pipeline) :
       e.ev = "end" /\ e.processed /\ e.seq = c.seq}

Holds(c, p, action) ==
  \E i \in 1..Len(c.actions) :
    c.actions[i].peerId = p /\ c.actions[i].payload = action

(* The ordering took no proposal for the action: onLocalAction returned    *)
(* at its late-action test.                                                  *)
DroppedByOrdering(p, action) == \A a \in accepted[p] : a.payload # action

(* C23: the pending actions of the GameNode are the submitted actions that *)
(* no processed commit holds, in the order of submission; when each         *)
(* submitted action is in a commit or was dropped by the ordering and no     *)
(* commit waits in the queue or in a callback, no action is pending and the  *)
(* optimistic state is the authoritative state; a processed commit calls     *)
(* every subscriber once.                                                   *)
C23_Reconciled ==
  \A p \in Procs :
    LET g == node[p]
    IN  /\ [i \in 1..Len(g.pendingActions) |-> g.pendingActions[i].action]
             = SelectSeq(LocalActions(p),
                         LAMBDA a : \A c \in Processed(p) : ~Holds(c, p, a))
        /\ (/\ commitQueue[p] = <<>>
            /\ g.running = <<>>
            /\ \A n \in 1..submitted[p] :
                 \/ \E c \in Range(Commits(p)) : Holds(c, p, PayloadOf(p, n))
                 \/ DroppedByOrdering(p, PayloadOf(p, n)))
             => /\ g.pendingActions = <<>>
                /\ g.state = g.authoritativeState
        /\ \A e \in Range(g.pipeline) :
             (e.ev = "end" /\ e.processed)
               => e.notified = [id \in g.subscribers |-> 1]

(* A submitted two actions, the commits that hold them were processed,    *)
(* and nothing is pending.                                                  *)
C23_Witness ==
  /\ submitted["A"] = 2
  /\ commitQueue["A"] = <<>>
  /\ node["A"].running = <<>>
  /\ \A n \in 1..2 : \E c \in Processed("A") : Holds(c, "A", PayloadOf("A", n))
  /\ node["A"].pendingActions = <<>>
  /\ node["A"].state = node["A"].authoritativeState
  /\ node["A"].state # InitialState

(* The ticks at which the scheduler id was applied to the authoritative    *)
(* state of p, in the order of the calls.                                   *)
SchedulerRuns(p, id) ==
  LET runs == SelectSeq(node[p].authoritativeState.calls,
                        LAMBDA c : c.call = "scheduler" /\ c.id = id)
  IN  [i \in 1..Len(runs) |-> runs[i].orderingTick]

CommittedTicks(p) == {TickOf(c) : c \in Processed(p)}

(* C24: a scheduler of kind "every" with everyTicks k and startTick s has   *)
(* been applied once for each tick t of a processed commit with t >= s and   *)
(* (t - s) mod k = 0, and for no other tick.                                 *)
C24_SchedulerCoverage ==
  \A p \in Procs :
    \A j \in 1..Len(node[p].engine.schedulers) :
      LET sch == node[p].engine.schedulers[j]
          runs == SchedulerRuns(p, sch.id)
      IN  \A t \in 0..(MaxTick + 1) :
            Cardinality({i \in 1..Len(runs) : runs[i] = t})
              = IF /\ t \in CommittedTicks(p)
                   /\ t >= sch.schedule.startTick
                   /\ (t - sch.schedule.startTick) % sch.schedule.everyTicks = 0
                THEN 1 ELSE 0

(* The commits of the ticks 1 and 2 were processed: "growth", due from     *)
(* tick 1 on, ran once for each of them.                                     *)
C24_Witness ==
  /\ CommittedTicks("A") = {1, 2}
  /\ SchedulerRuns("A", "growth") = <<1, 2>>
  /\ \E i \in 1..Len(node["A"].pipeline) :
       node["A"].pipeline[i].ev = "end"
  /\ node["A"].lastSchedulerCommittedTick = 2

(* The ids of the schedulers in ascending lexicographic order. *)
SortedIds == <<"growth", "weather">>

IdRank(id) == CHOOSE k \in 1..Len(SortedIds) : SortedIds[k] = id

(* C25: of two schedulers applied for the same tick, the one with the      *)
(* lexicographically smaller id is applied first, whatever the order of     *)
(* the addScheduler calls.                                                  *)
C25_SchedulerOrder ==
  \A p \in Procs :
    LET calls == node[p].authoritativeState.calls
    IN  \A i \in 1..Len(calls) : \A j \in 1..Len(calls) :
          (/\ i < j
           /\ calls[i].call = "scheduler"
           /\ calls[j].call = "scheduler"
           /\ calls[i].orderingTick = calls[j].orderingTick)
            => IdRank(calls[i].id) < IdRank(calls[j].id)

(* Both schedulers were due at tick 2 and were applied for it. *)
C25_Witness ==
  /\ 2 \in CommittedTicks("A")
  /\ 2 \in Range(SchedulerRuns("A", "weather"))
  /\ 2 \in Range(SchedulerRuns("A", "growth"))

(* C21: once a callback of the commit queue has ended with its log.append  *)
(* refused, no callback after it processes its commit: none changes the     *)
(* states or calls a subscriber.                                            *)
C21_AppendFailureHalts ==
  \A p \in Procs :
    LET ev == node[p].pipeline
    IN  \A i \in 1..Len(ev) : \A j \in 1..Len(ev) :
          (i < j /\ ev[i].ev = "end" /\ ~ev[i].processed /\ ev[j].ev = "end")
            => /\ ~ev[j].processed
               /\ \A id \in node[p].subscribers : ev[j].notified[id] = 0

(* The append of the first commit was refused by the log that holds a      *)
(* commit already: its callback ended without touching the states.           *)
C21_Witness ==
  /\ Len(node["A"].pipeline) = 2
  /\ ~node["A"].pipeline[2].processed
  /\ latestHeight(log["A"]) = 1
  /\ node["A"].authoritativeState = InitialState
  /\ Len(Commits("A")) >= 1

(* C31: the proposal buffer, the seal buffer and the local seq counters of *)
(* an ordering hold no entry for a tick at or below its committed tick.     *)
C31_Collected ==
  \A p \in Procs :
    \A t \in DOMAIN ord[p].buffer \cup DOMAIN ord[p].seals
               \cup DOMAIN ord[p].localSeqByTick :
      t > ord[p].committedTick

(* A tick for which A had buffered its own action and the seals was        *)
(* committed, and nothing of it is left.                                    *)
C31_Witness ==
  /\ \E k \in 1..Len(Commits("A")) :
       /\ Commits("A")[k].buffered # EmptyMap
       /\ Holds(Commits("A")[k], "A", PayloadOf("A", 1))
       /\ TickOf(Commits("A")[k]) \notin
            DOMAIN ord["A"].buffer \cup DOMAIN ord["A"].seals
              \cup DOMAIN ord["A"].localSeqByTick
----------------------------------------------------------------------------
(* An application that calls tick(nowMs) with a nowMs of its own choice,   *)
(* whatever Date.now() is on its machine.                                   *)
CallTickAt(p, nowMs) ==
  /\ computeTick(ord[p], nowMs) <= MaxTick
  /\ Returned(p, tick(ord[p], nowMs), "tick", "", NoMsg, None)
  /\ UNCHANGED <<wall, link, env, submitted, node>>

NextFree ==
  \/ \E p \in Procs : AdvanceClock(p)
  \/ \E p \in Procs : \E nowMs \in Times : CallTickAt(p, nowMs)
  \/ \E p \in Procs : CallOnLocalAction(p)
  \/ \E pq \in DOMAIN link : PeerConnected(pq[1], pq[2])
  \/ \E pq \in DOMAIN link : PeerDisconnected(pq[1], pq[2])
  \/ \E p \in Procs : FireSyncTimer(p)
  \/ \E pq \in DOMAIN link : ReceiveRemote(pq[1], pq[2])

SpecFree == Init /\ [][NextFree]_vars

(* C32: no step makes the currentTick or the committedTick of an ordering  *)
(* smaller.                                                                 *)
C32_MonotoneClock ==
  [][\A p \in Procs :
       /\ ord'[p].currentTick >= ord[p].currentTick
       /\ ord'[p].committedTick >= ord[p].committedTick]_vars

(* A SYNC_CLOCK has moved the clock of A forward: the start of the session *)
(* was set again and the current tick is past the first.                    *)
C32_Witness ==
  /\ ord["A"].t0Ms # T0Ms
  /\ ord["A"].currentTick >= 1
  /\ ord["A"].committedTick >= 1
----------------------------------------------------------------------------
(* The proposals p has broadcast for the tick t. *)
AcceptedFor(p, t) == {a \in accepted[p] : a.tick = t}

(* C33: the seq of every proposal onLocalAction has broadcast is the       *)
(* number of proposals it broadcast earlier for the same targetTick, so    *)
(* the seqs of a tick are 0, 1, 2, ... in call order and no two proposals  *)
(* of a peer share tick and seq.                                            *)
C33_LocalSeq ==
  \A p \in Procs :
    \A a \in accepted[p] :
      a.seq = Cardinality({b \in AcceptedFor(p, a.tick) : b.payload.n < a.payload.n})

(* A has broadcast two proposals for one tick; the later has seq 1. *)
C33_Witness ==
  \E a, b \in accepted["A"] :
    /\ a.tick = b.tick
    /\ a.payload.n < b.payload.n
    /\ b.seq = 1
----------------------------------------------------------------------------
(* The actions of the commit c that P authored. *)
AuthoredBy(c, P) == SelectSeq(c.actions, LAMBDA a : a.peerId = P)

(* The seqs of the proposals of P that were buffered when c was built. *)
BufferedSeqs(c, P) ==
  LET arr == Get(c.buffered, P, <<>>)
  IN  {arr[i].seq : i \in 1..Len(arr)}

(* C34: a commit for tick T holds, for every peer P eligible at T, the     *)
(* proposals of P with seq 0..lastSeq(P, T) and no other action of P,      *)
(* where lastSeq(P, T) is the value of the seal of P recorded for T.        *)
C34_SealComplete ==
  \A p \in Procs :
    \A k \in 1..Len(Commits(p)) :
      LET c == Commits(p)[k]
      IN  \A P \in c.eligible :
            /\ Has(c.lastSeqs, P)
            /\ Len(AuthoredBy(c, P)) = c.lastSeqs[P] + 1
            /\ BufferedSeqs(c, P) = 0..c.lastSeqs[P]

(* B has committed a tick for which A, eligible, sealed one proposal, and  *)
(* the commit holds it.                                                     *)
C34_Witness ==
  \E k \in 1..Len(Commits("B")) :
    LET c == Commits("B")[k]
    IN  /\ "A" \in c.eligible
        /\ Has(c.lastSeqs, "A")
        /\ c.lastSeqs["A"] = 0
        /\ Len(AuthoredBy(c, "A")) = 1
----------------------------------------------------------------------------
(* The steps of the mesh that need no player. *)
NextMeshLive ==
  \/ \E p \in Procs : AdvanceClock(p)
  \/ \E p \in Procs : CallTick(p)
  \/ \E pq \in DOMAIN link : PeerConnected(pq[1], pq[2])
  \/ \E p \in Procs : FireSyncTimer(p)
  \/ \E pq \in DOMAIN link : DeliverMessage(pq[1], pq[2])

(* A call of tick() at p would change the ordering. *)
TickDue(p) ==
  /\ computeTick(ord[p], wall[p]) <= MaxTick
  /\ tick(ord[p], wall[p]) # ord[p]

(* A frame of q waits on the open channel to p. *)
FrameDue(p, q) ==
  /\ p # q
  /\ link[<<p, q>>] = "open"
  /\ chan[<<q, p>>] # <<>>

(* Time goes on, the channels open and the timers fire (weak fairness);    *)
(* the peers keep calling tick() and every frame on an open channel        *)
(* arrives: weak fairness of CallTick and DeliverMessage, written with the *)
(* condition under which the step is possible.                              *)
FairMesh ==
  /\ WF_vars(\E p \in Procs : AdvanceClock(p))
  /\ WF_vars(\E pq \in DOMAIN link : PeerConnected(pq[1], pq[2]))
  /\ WF_vars(\E p \in Procs : FireSyncTimer(p))
  /\ \/ []<>(\A p \in Procs : ~TickDue(p))
     \/ []<><<\E p \in Procs : CallTick(p)>>_vars
  /\ \/ []<>(\A p, q \in Procs : ~FrameDue(p, q))
     \/ []<><<\E pq \in DOMAIN link : DeliverMessage(pq[1], pq[2])>>_vars

SpecMeshLive == InitMesh /\ [][NextMeshLive]_vars /\ FairMesh

(* Every tick the ordering o may commit at its current tick is committed. *)
CaughtUp(o) == o.currentTick >= 0 /\ o.committedTick >= 1

(* C35: two connected peers that keep calling tick() come to commit, and   *)
(* keep committing, every tick up to the newest their clocks allow.         *)
C35_NoStall == <>[](\A p \in Procs : CaughtUp(ord[p]))

(* Both peers have committed the newest tick, with the seal of the other. *)
C35_Witness ==
  \A p \in Procs :
    /\ CaughtUp(ord[p])
    /\ ord[p].currentTick >= 1
    /\ \E k \in 1..Len(Commits(p)) : Commits(p)[k].sealers = Procs
----------------------------------------------------------------------------
(* GameNode.subscribe and the handles it returns. The registry is the      *)
(* object this.subscribers: a map from the id to the callback. A callback  *)
(* is named by the number of the subscribe() call that registered it.      *)
MaxSubscriptions == 4

(* const id = Object.keys(this.subscribers).length; this.subscribers[id] = fn *)
subscribeId(subscribers) == Cardinality(DOMAIN subscribers)

subscribe(subscribers, fn) == Put(subscribers, subscribeId(subscribers), fn)

(* the returned handle: delete this.subscribers[id] *)
unsubscribe(subscribers, id) == Del(subscribers, id)

(* notifySubscribers: for (const fn of Object.values(this.subscribers)) fn(view) *)
invokedBy(subscribers) == {subscribers[id] : id \in DOMAIN subscribers}

(* net.handles[fn] is the id that the handle returned to fn deletes,       *)
(* net.live the callbacks subscribed and not unsubscribed, net.invoked the  *)
(* callbacks the last notification called. A handle is called at most      *)
(* once.                                                                     *)
NoSubscribers ==
  [op |-> "none", subscribers |-> EmptyMap, handles |-> EmptyMap, live |-> {},
   fn |-> 0, before |-> EmptyMap, invoked |-> {}]

RegistrySubscribe ==
  /\ Cardinality(DOMAIN net.handles) < MaxSubscriptions
  /\ LET fn == Cardinality(DOMAIN net.handles) + 1
     IN  LifeCall([net EXCEPT !.op = "subscribe", !.fn = fn,
                              !.before = net.subscribers,
                              !.subscribers = subscribe(@, fn),
                              !.handles = Put(@, fn, subscribeId(net.subscribers)),
                              !.live = @ \cup {fn},
                              !.invoked = {fn}])

RegistryUnsubscribe(fn) ==
  /\ fn \in net.live
  /\ LifeCall([net EXCEPT !.op = "unsubscribe", !.fn = fn,
                           !.before = net.subscribers,
                           !.subscribers = unsubscribe(@, net.handles[fn]),
                           !.live = @ \ {fn},
                           !.invoked = {}])

RegistryNotify ==
  /\ net.op # "notify"
  /\ LifeCall([net EXCEPT !.op = "notify", !.fn = 0,
                           !.before = net.subscribers,
                           !.invoked = invokedBy(net.subscribers)])

NextRegistry ==
  \/ RegistrySubscribe
  \/ \E fn \in 1..MaxSubscriptions : RegistryUnsubscribe(fn)
  \/ RegistryNotify

InitRegistry ==
  /\ InitCore({"A"}, {}, Honest({}, TimeAt(1), FALSE), FALSE)
  /\ eng = NoEngine
  /\ net = NoSubscribers

SpecRegistry == InitRegistry /\ [][NextRegistry]_vars

(* C36: a notification calls every callback that was subscribed and not    *)
(* unsubscribed, and a handle removes the callback it was returned for and *)
(* no other.                                                                *)
C36_Registry ==
  /\ net.op = "notify" => net.live \subseteq net.invoked
  /\ net.op = "unsubscribe"
       => invokedBy(net.subscribers) = invokedBy(net.before) \ {net.fn}

(* Three callbacks were subscribed, one was unsubscribed and the           *)
(* notification called the other two.                                       *)
C36_Witness ==
  /\ net.op = "notify"
  /\ Cardinality(DOMAIN net.handles) = 3
  /\ Cardinality(net.live) = 2
  /\ net.invoked = net.live
----------------------------------------------------------------------------
(* SignedTransport. A key pair is named by its public key; a signature is  *)
(* the pair of the key that made it and the bytes it was made over, so     *)
(* that it verifies for that key and those bytes only.                      *)
SIGNED_ENVELOPE_TOPIC == <<95, 95, 115>>

sign(privateKey, data) == [data |-> data, key |-> privateKey]

verify(publicKeyHex, data, signature) ==
  signature.key = publicKeyHex /\ signature.data = data

(* Bytes are either raw bytes or the text of a JSON document.              *)
(* buildSignData: the topic bytes followed by the payload bytes.            *)
buildSignData(topic, payload) == [raw |-> topic \o payload.raw]

toBase64(bytes) == [b64 |-> bytes]

fromBase64(b64) == b64.b64

(* JSON.stringify / JSON.parse of an envelope; other bytes do not parse. *)
stringify(envelope) == [json |-> envelope]

Parses(bytes) == "json" \in DOMAIN bytes

wrapAndSign(self, msg) ==
  [payload |-> stringify([topic |-> msg.topic, senderId |-> self,
                          payloadB64 |-> toBase64(msg.payload),
                          signatureB64 |-> toBase64(sign(self,
                              buildSignData(msg.topic, msg.payload)))]),
   topic |-> SIGNED_ENVELOPE_TOPIC]

(* handleIncoming: the calls of the application handlers and of the        *)
(* failure handlers it makes.                                               *)
handleIncoming(fromPeerId, msg) ==
  IF msg.topic # SIGNED_ENVELOPE_TOPIC
  THEN [delivered |-> <<[msg |-> msg, from |-> fromPeerId]>>, failure |-> ""]
  ELSE IF ~Parses(msg.payload)
  THEN [delivered |-> <<>>, failure |-> "Failed to parse envelope"]
  ELSE
    LET envelope  == msg.payload.json
        payload   == fromBase64(envelope.payloadB64)
        signature == fromBase64(envelope.signatureB64)
        signData  == buildSignData(envelope.topic, payload)
    IN  IF ~verify(envelope.senderId, signData, signature)
        THEN [delivered |-> <<>>, failure |-> "Invalid signature"]
        ELSE [delivered |-> <<[msg |-> [payload |-> payload,
                                        topic |-> envelope.topic],
                               from |-> envelope.senderId]>>,
              failure |-> ""]

(* The frames the inner transport can hand over: envelopes made by the     *)
(* SignedTransport of a peer, envelopes put together from any sender, any *)
(* signature and any content, plain frames and bytes that do not parse.    *)
SignKeys == {"B", "C"}
SignTopics == {<<110>>, <<110, 1>>}
SignPayloads == {[raw |-> <<1>>], [raw |-> <<2>>], [raw |-> <<1, 2>>]}
PlainMessages == [payload : SignPayloads, topic : SignTopics]

Signatures ==
  {sign(k, buildSignData(m.topic, m.payload)) : k \in SignKeys, m \in PlainMessages}

Envelopes ==
  {[topic |-> m.topic, senderId |-> k, payloadB64 |-> toBase64(m.payload),
    signatureB64 |-> toBase64(sg)] :
      k \in SignKeys, m \in PlainMessages, sg \in Signatures}

IncomingFrames ==
  PlainMessages
  \cup {[payload |-> stringify(e), topic |-> SIGNED_ENVELOPE_TOPIC] : e \in Envelopes}
  \cup {[payload |-> [raw |-> <<123>>], topic |-> SIGNED_ENVELOPE_TOPIC]}

NoIncoming ==
  [msg |-> [payload |-> [raw |-> <<>>], topic |-> <<>>], from |-> "",
   op |-> "none", delivered |-> <<>>, failure |-> ""]

(* A peer sends msg through its SignedTransport and the frame arrives,     *)
(* directly or relayed by the peer from.                                    *)
SignedSend(k, from, msg) ==
  LET frame == wrapAndSign(k, msg)
      r     == handleIncoming(from, frame)
  IN  LifeCall([msg |-> frame, from |-> from, op |-> "send",
                delivered |-> r.delivered, failure |-> r.failure])

SignedReceive(from, frame) ==
  LET r == handleIncoming(from, frame)
  IN  LifeCall([msg |-> frame, from |-> from, op |-> "receive",
                delivered |-> r.delivered, failure |-> r.failure])

NextSigned ==
  \/ \E k \in SignKeys, from \in SignKeys, msg \in PlainMessages :
        SignedSend(k, from, msg)
  \/ \E from \in SignKeys, frame \in IncomingFrames : SignedReceive(from, frame)

InitSigned ==
  /\ InitCore({"A"}, {}, Honest({}, TimeAt(1), FALSE), FALSE)
  /\ eng = NoEngine
  /\ net = NoIncoming

SpecSigned == InitSigned /\ [][NextSigned]_vars

(* The frame is a signed envelope whose signature verifies for its         *)
(* senderId.                                                                 *)
VerifiedEnvelope(frame) ==
  /\ frame.topic = SIGNED_ENVELOPE_TOPIC
  /\ Parses(frame.payload)
  /\ LET e == frame.payload.json
     IN  verify(e.senderId,
                buildSignData(e.topic, fromBase64(e.payloadB64)),
                fromBase64(e.signatureB64))

(* C37: the handlers of the application are called only for a frame that  *)
(* is a signed envelope whose signature verifies for its senderId, and     *)
(* with that senderId as the sender.                                        *)
C37_OnlyVerified ==
  \A i \in 1..Len(net.delivered) :
    /\ VerifiedEnvelope(net.msg)
    /\ net.delivered[i].from = net.msg.payload.json.senderId

(* An envelope signed by C arrived through B and was delivered as sent by  *)
(* C; an envelope with a signature of another key was refused.              *)
C37_Witness ==
  /\ net.from = "B"
  /\ VerifiedEnvelope(net.msg)
  /\ net.delivered = <<[msg |-> [payload |-> [raw |-> <<1>>], topic |-> <<110>>],
                       from |-> "C"]>>
----------------------------------------------------------------------------
(* SecretTargetRule of the secret target game. The players object keeps    *)
(* its keys in the order of the JOIN actions (order); a selectedTarget of  *)
(* null and a winner that is not set are "". dateNow is what Date.now()    *)
(* returns during the call.                                                 *)
INITIAL_HP == 5
MaxLogs == 4

INITIAL_STATE ==
  [status |-> "LOBBY", turn |-> 1, players |-> EmptyMap, order |-> <<>>,
   logs |-> <<>>, winner |-> ""]

secretIsLegal(state, action, meta) ==
  CASE action.type = "JOIN" -> TRUE
    [] action.type = "START_GAME" ->
         state.status = "LOBBY" /\ Len(state.order) >= 2
    [] action.type = "SELECT_TARGET" ->
         /\ meta.from = action.playerId
         /\ state.status = "PLAYING"
         /\ Has(state.players, action.playerId)
         /\ state.players[action.playerId].isAlive
         /\ Has(state.players, action.targetId)
    [] OTHER -> TRUE

LogEntry(state, message, dateNow) ==
  [turn |-> state.turn, message |-> message, timestamp |-> dateNow]

(* livingPlayers.forEach((p) => { ... }) *)
RECURSIVE resolveAttacks(_, _, _)
resolveAttacks(state, living, dateNow) ==
  IF living = <<>> THEN state
  ELSE
    LET p        == Head(living)
        targetId == state.players[p].selectedTarget
        s1 == [state EXCEPT !.logs =
                 Append(@, LogEntry(state, <<p, "attacked", targetId>>, dateNow))]
        s2 == IF ~Has(s1.players, targetId) THEN s1
              ELSE LET hp == s1.players[targetId].hp - 1
                   IN  IF hp <= 0 /\ s1.players[targetId].isAlive
                       THEN [s1 EXCEPT
                               !.players[targetId].hp = hp,
                               !.players[targetId].isAlive = FALSE,
                               !.logs = Append(@, LogEntry(s1,
                                          <<targetId, "was eliminated!">>, dateNow))]
                       ELSE [s1 EXCEPT !.players[targetId].hp = hp]
        s3 == [s2 EXCEPT !.players[p].selectedTarget = ""]
    IN  resolveAttacks(s3, Tail(living), dateNow)

maybeResolveTurn(state, dateNow) ==
  IF state.status # "PLAYING" THEN state
  ELSE
    LET livingPlayers == SelectSeq(state.order, LAMBDA p : state.players[p].isAlive)
        allSelected ==
          /\ Len(livingPlayers) > 0
          /\ \A k \in 1..Len(livingPlayers) :
                state.players[livingPlayers[k]].selectedTarget # ""
    IN  IF ~allSelected THEN state
        ELSE
          LET s1 == resolveAttacks(state, livingPlayers, dateNow)
              survivors == SelectSeq(s1.order, LAMBDA p : s1.players[p].isAlive)
          IN  IF Len(survivors) <= 1
              THEN [s1 EXCEPT
                      !.status = "GAME_OVER",
                      !.winner = IF survivors = <<>> THEN "No one"
                                 ELSE survivors[Len(survivors)],
                      !.logs = Append(@, LogEntry(s1,
                                 IF Len(survivors) = 1
                                 THEN <<"Game Over! Winner:", survivors[1]>>
                                 ELSE <<"Game Over! It's a draw!">>, dateNow))]
              ELSE [s1 EXCEPT !.turn = @ + 1]

secretApply(state, action, meta, dateNow) ==
  LET next ==
        CASE action.type = "JOIN" ->
               IF Has(state.players, action.playerId) THEN state
               ELSE [state EXCEPT
                       !.players = Put(@, action.playerId,
                                       [id |-> action.playerId, hp |-> INITIAL_HP,
                                        isAlive |-> TRUE, selectedTarget |-> ""]),
                       !.order = Append(@, action.playerId)]
          [] action.type = "START_GAME" ->
               [state EXCEPT
                  !.status = "PLAYING",
                  !.logs = Append(@, [turn |-> 0, message |-> <<"Game Started!">>,
                                      timestamp |-> dateNow])]
          [] action.type = "SELECT_TARGET" ->
               [state EXCEPT !.players[action.playerId].selectedTarget = action.targetId]
          [] OTHER -> state
  IN  maybeResolveTurn(next, dateNow)

(* The committed actions of a game of B and C, and the wall-clock times at *)
(* which a peer may run the reduction.                                      *)
RulePlayers == {"B", "C"}
RuleTimes == {TimeAt(1), TimeAt(2)}

RuleActions ==
  {[type |-> "JOIN", playerId |-> p, targetId |-> ""] : p \in RulePlayers}
  \cup {[type |-> "START_GAME", playerId |-> "", targetId |-> ""]}
  \cup {[type |-> "SELECT_TARGET", playerId |-> p, targetId |-> q] :
          p \in RulePlayers, q \in RulePlayers}

NoGame ==
  [state |-> INITIAL_STATE, op |-> "none",
   action |-> [type |-> "NOP", playerId |-> "", targetId |-> ""], from |-> ""]

(* engine.reduce of a committed action on one peer, at the time dateNow. *)
RuleReduce(action, from, dateNow) ==
  /\ secretIsLegal(eng.state, action, [from |-> from])
  /\ Len(secretApply(eng.state, action, [from |-> from], dateNow).logs) <= MaxLogs
  /\ EngineCall([eng EXCEPT
                   !.state = secretApply(eng.state, action, [from |-> from], dateNow),
                   !.op = "reduce", !.action = action, !.from = from])

NextRules ==
  \E action \in RuleActions, from \in RulePlayers, dateNow \in RuleTimes :
    RuleReduce(action, from, dateNow)

InitRules ==
  /\ InitCore({"A"}, {}, Honest({}, TimeAt(1), FALSE), FALSE)
  /\ eng = NoGame
  /\ net = NoTransport

SpecRules == InitRules /\ [][NextRules]_vars

(* C38: the state a legal action leads to does not depend on the time at   *)
(* which a peer applies it.                                                 *)
C38_RuleDeterministic ==
  \A action \in RuleActions, from \in RulePlayers :
    secretIsLegal(eng.state, action, [from |-> from])
      => \A t1, t2 \in RuleTimes :
           secretApply(eng.state, action, [from |-> from], t1)
             = secretApply(eng.state, action, [from |-> from], t2)

(* A turn was resolved: both players lost a point and the next turn began. *)
C38_Witness ==
  /\ eng.op = "reduce"
  /\ eng.state.turn = 2
  /\ \A p \in RulePlayers :
       Has(eng.state.players, p) /\ eng.state.players[p].hp = INITIAL_HP - 1
----------------------------------------------------------------------------
(* MeshWebRtcTransport: three transports that start from the hand-made     *)
(* connections A - B and B - C and find each other through B. m is the     *)
(* record of the three transports:                                          *)
(*   open[n]     connectedPeers of n        peers[n]    keys of n.peers     *)
(*   pending[n]  n.pendingConnections       seenIds[n]  n.seenIds           *)
(*   made[n]     the number of ids uid() has returned at n                  *)
(*   ready[n]    the peers whose channel to n is about to open              *)
(*   wire        the frames sent and not yet received                       *)
(*   passed      the pairs <<n, id>> that passed the de-duplication of n    *)
(*   again       the pairs that passed it a second time                     *)
(*   relay       the last call of floodExcept: who, excluding whom, to whom *)
MeshNodes == {"A", "B", "C"}
MaxIds == 3

NodeIndex(n) == CASE n = "A" -> 1 [] n = "B" -> 2 [] OTHER -> 3

(* uid(): the ids of one transport differ by the counter nextId, those of  *)
(* two transports by the random part.                                       *)
uid(m, n) == 10 * NodeIndex(n) + m.made[n] + 1

Frames(src, dsts, msg) == {[src |-> src, dst |-> d, msg |-> msg] : d \in dsts}

(* broadcast of a mesh frame the transport n made itself *)
sendOwn(m, n, msg) ==
  [m EXCEPT !.made[n] = @ + 1,
            !.seenIds[n] = @ \cup {msg.id},
            !.wire = @ \cup Frames(n, m.open[n], msg)]

broadcastPeerList(m, n) ==
  sendOwn(m, n, [id |-> uid(m, n), topic |-> "discovery", type |-> "",
                 from |-> n, to |-> "", knownPeers |-> m.open[n]])

floodExcept_all(m, n, excludePeerId, msg) ==
  [m EXCEPT !.wire = @ \cup Frames(n, m.open[n], msg),
            !.relay = [node |-> n, id |-> msg.id, exclude |-> excludePeerId,
                       sentTo |-> m.open[n]]]

floodExcept(m, n, excludePeerId, msg) ==
  [m EXCEPT !.wire = @ \cup Frames(n, m.open[n] \ {excludePeerId}, msg),
            !.relay = [node |-> n, id |-> msg.id, exclude |-> excludePeerId,
                       sentTo |-> m.open[n] \ {excludePeerId}]]

(* if (this.seenIds.has(id)) return; this.seenIds.add(id); *)
markSeen(m, n, id) ==
  [m EXCEPT !.seenIds[n] = @ \cup {id},
            !.passed = @ \cup {<<n, id>>},
            !.again = IF <<n, id>> \in m.passed THEN @ \cup {<<n, id>>} ELSE @]

initiateMeshConnection(m, n, targetPeerId) ==
  IF NodeIndex(n) > NodeIndex(targetPeerId) THEN m
  ELSE
    LET m1 == [m EXCEPT !.pending[n] = @ \cup {targetPeerId},
                        !.peers[n] = @ \cup {targetPeerId}]
    IN  sendOwn(m1, n, [id |-> uid(m1, n), topic |-> "signal", type |-> "offer",
                        from |-> n, to |-> targetPeerId, knownPeers |-> {}])

RECURSIVE connectUnknown(_, _, _)
connectUnknown(m, n, knownPeers) ==
  IF knownPeers = {} THEN m
  ELSE
    LET peerId == CHOOSE p \in knownPeers : \A q \in knownPeers : NodeIndex(p) <= NodeIndex(q)
        m1 == IF peerId # n /\ peerId \notin m.peers[n] /\ peerId \notin m.pending[n]
              THEN initiateMeshConnection(m, n, peerId)
              ELSE m
    IN  connectUnknown(m1, n, knownPeers \ {peerId})

handlePeerDiscovery(m, n, from, msg) ==
  IF msg.id \in m.seenIds[n] THEN m
  ELSE connectUnknown(floodExcept(markSeen(m, n, msg.id), n, from, msg),
                      n, msg.knownPeers)

handleMeshSignal(m, n, from, msg) ==
  IF msg.id \in m.seenIds[n] THEN m
  ELSE
    LET m1 == markSeen(m, n, msg.id)
    IN  IF msg.to # n THEN floodExcept(m1, n, from, msg)
        ELSE IF msg.type = "offer"
        THEN LET m2 == [m1 EXCEPT !.pending[n] = @ \cup {msg.from},
                                  !.peers[n] = @ \cup {msg.from},
                                  !.ready[n] = @ \cup {msg.from}]
             IN  sendOwn(m2, n, [id |-> uid(m2, n), topic |-> "signal",
                                 type |-> "answer", from |-> n, to |-> msg.from,
                                 knownPeers |-> {}])
        ELSE [m1 EXCEPT !.pending[n] = @ \ {msg.from},
                        !.ready[n] = @ \cup {msg.from}]

NoMesh ==
  [open    |-> [n \in MeshNodes |-> {}],
   peers   |-> [n \in MeshNodes |-> IF n = "B" THEN {"A", "C"} ELSE {"B"}],
   pending |-> [n \in MeshNodes |-> {}],
   seenIds |-> [n \in MeshNodes |-> {}],
   made    |-> [n \in MeshNodes |-> 0],
   ready   |-> [n \in MeshNodes |-> IF n = "B" THEN {"A", "C"} ELSE {"B"}],
   wire    |-> {},
   passed  |-> {},
   again   |-> {},
   relay   |-> [node |-> "", id |-> 0, exclude |-> "", sentTo |-> {}]]

(* dc.onopen at n for the channel to q: peer_connected, broadcastPeerList *)
MeshOpen(n, q) ==
  /\ q \in net.ready[n] \ net.open[n]
  /\ net.made[n] < MaxIds
  /\ LifeCall(broadcastPeerList([net EXCEPT !.open[n] = @ \cup {q},
                                            !.pending[n] = @ \ {q}], n))

(* A frame arrives at its destination. *)
MeshReceive(fr) ==
  /\ fr \in net.wire
  /\ net.made[fr.dst] < MaxIds
  /\ LET m == [net EXCEPT !.wire = @ \ {fr}]
     IN  LifeCall(IF fr.msg.topic = "signal"
                  THEN handleMeshSignal(m, fr.dst, fr.src, fr.msg)
                  ELSE handlePeerDiscovery(m, fr.dst, fr.src, fr.msg))

NextFlood ==
  \/ \E n \in MeshNodes, q \in MeshNodes : MeshOpen(n, q)
  \/ \E fr \in net.wire : MeshReceive(fr)

InitFlood ==
  /\ InitCore({"A"}, {}, Honest({}, TimeAt(1), FALSE), FALSE)
  /\ eng = NoEngine
  /\ net = NoMesh

SpecFlood == InitFlood /\ [][NextFlood]_vars

(* C39: no transport lets a frame with the same id pass its de-duplication *)
(* twice, and floodExcept never sends to the peer the frame came from.     *)
C39_FloodOnce ==
  /\ net.again = {}
  /\ net.relay.exclude \notin net.relay.sentTo

(* B has relayed the offer of A to C, and C's answer has come back to A    *)
(* through B; copies of a discovery frame were dropped on the way.          *)
C39_Witness ==
  /\ "C" \in net.ready["A"]
  /\ \E id \in net.seenIds["B"] : <<"B", id>> \in net.passed /\ id \div 10 = 1
  /\ \E fr \in net.wire : fr.msg.id \in net.seenIds[fr.dst]
----------------------------------------------------------------------------
(* SubsidyScheduler of the farming game. The state of the game is cut down *)
(* to what the scheduler reads and writes: the status, lastSubsidyTick and *)
(* the money of the players.                                                *)
SubsidyPeriod == 100
PlusMoney == 5
StartMoney == 100
MaxSubsidyTick == 101

SubsidyPlayers == {"B", "C"}

subsidySchedule(state) ==
  [kind |-> "every", everyTicks |-> 1, except |-> state.status # "PLAYING"]

subsidyApply(state, meta) ==
  LET currentTick == meta.orderingTick
      lastTick    == state.lastSubsidyTick
      dt          == currentTick - lastTick
  IN  IF dt <= 0 THEN state
      ELSE [state EXCEPT
              !.money = IF meta.orderingTick % SubsidyPeriod = 0
                        THEN [p \in DOMAIN @ |-> @[p] + PlusMoney * dt]
                        ELSE @,
              !.lastSubsidyTick = currentTick]

(* One round of applySchedulersCatchUp for the tick t. *)
subsidyRun(state, t) ==
  LET meta == [orderingTick |-> t, from |-> "A"]
  IN  IF isDue(subsidySchedule(state), state, meta)
      THEN subsidyApply(state, meta) ELSE state

NoFarm ==
  [state |-> [status |-> "LOBBY", lastSubsidyTick |-> 0,
              money |-> [p \in SubsidyPlayers |-> StartMoney]],
   tick |-> 0, op |-> "none",
   before |-> [p \in SubsidyPlayers |-> StartMoney]]

(* The commit of the next tick: its actions, here START_GAME or none, and  *)
(* then the schedulers for the tick.                                        *)
FarmCommit(startGame) ==
  /\ eng.tick < MaxSubsidyTick
  /\ startGame => eng.state.status = "LOBBY"
  /\ LET t  == eng.tick + 1
         s1 == IF startGame THEN [eng.state EXCEPT !.status = "PLAYING"]
               ELSE eng.state
     IN  EngineCall([eng EXCEPT !.state = subsidyRun(s1, t), !.tick = t,
                                !.op = IF startGame THEN "start" ELSE "commit",
                                !.before = s1.money])

NextFarm == \E startGame \in BOOLEAN : FarmCommit(startGame)

InitFarm ==
  /\ InitCore({"A"}, {}, Honest({}, TimeAt(1), FALSE), FALSE)
  /\ eng = NoFarm
  /\ net = NoTransport

SpecFarm == InitFarm /\ [][NextFarm]_vars

(* C40: the commit of a tick gives every player 5 money when the game is   *)
(* PLAYING and the tick is a multiple of 100, and nothing otherwise.        *)
C40_Subsidy ==
  eng.tick >= 1 =>
    \A p \in SubsidyPlayers :
      eng.state.money[p] - eng.before[p] =
        IF eng.state.status = "PLAYING" /\ eng.tick % SubsidyPeriod = 0
        THEN PlusMoney ELSE 0

(* The game was started before tick 100 and the commit of tick 100 gave    *)
(* every player 5 money.                                                    *)
C40_Witness ==
  /\ eng.tick = SubsidyPeriod
  /\ eng.op = "commit"
  /\ eng.state.status = "PLAYING"
  /\ \A p \in SubsidyPlayers : eng.state.money[p] = StartMoney + PlusMoney
====
